---- MODULE Spec2Model ----
(***************************************************************************)
(* State-machine model of the REABEL assessment platform front end:        *)
(* ConfigService (workflow engine), RoleService, AuthService, Store,       *)
(* NavigationService, Sidebar and AssessmentService.                       *)
(*                                                                         *)
(* JavaScript values are encoded as follows.                               *)
(*  - A string that the code builds or searches (permission entries,       *)
(*    navigation ids and hrefs) is a sequence of tokens; concatenation is  *)
(*    \o and String.prototype.includes is a contiguous-subsequence test.   *)
(*  - An identifier that the code only compares (role ids, workflow        *)
(*    states, event names) is a TLA+ string.                               *)
(*  - A nullable object map (roles, permissions, workflows) is a function; *)
(*    null/undefined is the function with the empty domain, and a lookup   *)
(*    of a missing key is "undefined" (Has(...) is false).                 *)
(*  - An optional argument is a sequence of length 0 (omitted) or 1.       *)
(***************************************************************************)
EXTENDS Integers, Sequences, FiniteSets, TLC

VARIABLES
    mode,            \* APP_CONFIG.dataSources.mode / ApiService.mode
    workflows,       \* ConfigService.configs.workflows
    walk,            \* the states an assessment has been moved through by
                     \* transitions that canTransition permits, in order
    roles,           \* RoleService.roles
    permissions,     \* RoleService.permissions
    currentRole,     \* RoleService.currentRole
    lsRole,          \* localStorage['reabel_demoRole']
    lsUser,          \* localStorage['reabel_user'] (AuthService.saveToStorage)
    lsSession,       \* localStorage['reabel_session']
    storeUser,       \* store.state.user
    storeSession,    \* store.state.session
    storeRole,       \* store.state.currentRole
    navigationData,  \* NavigationService.navigationData
    sidebar,         \* Sidebar component: subscription and state
    templates,       \* AssessmentService.templates (ids of the loaded templates)
    assessNull,      \* AssessmentService.assessments === null
    assessments,     \* AssessmentService.assessments (the array, <<>> while null)
    cache,           \* AssessmentService.cache (Map id -> object)
    nextId,          \* number of ids generateId has handed out
    apiCache,        \* ApiService.cache: the resources that have a cached result
    cacheData,       \* ApiService.cache: the result held per resource, where the
                     \* interleavings of load are followed (DOMAIN = apiCache there)
    pendingRequests, \* ApiService.pendingRequests: resource -> request
    requests,        \* the loadLocal / loadRemote promises created so far
    callers,         \* the load(resource) calls made so far and what they received
    call,            \* the operation that ran last, with its arguments
    ret,             \* what that operation returned (or that it threw)
    emitted,         \* events that operation emitted on the event bus, in order
    saved,           \* apiService.save requests that operation made, in order
    postRun,         \* post-transition actions that operation attempted, in order
    hits,            \* backend: requests the rate limiter has counted in the
                     \* current window for the client address
    dbAssessments,   \* backend: the rows of table assessments, in insertion order
    ran,             \* backend: the middleware and handlers that ran for the
                     \* last request, in order
    fields,          \* FormBuilder.state.schema.fields
    values,          \* FormBuilder.state.values (field name -> value)
    errors,          \* FormBuilder.state.errors (field name -> message or null)
    touched,         \* FormBuilder.state.touched (the field names marked)
    listeners,       \* Store.listeners, in subscription order
    events,          \* EventBus.events (event name -> callbacks, in order)
    invoked,         \* the listener and callback invocations of the last
                     \* operation, in order, with the arguments handed over
    questions,       \* QuestionService.questions (ids of the question bank)
    responses,       \* QuestionService.responses (Map key -> response)
    invalidated,     \* history: the requests that had been created when the
                     \* cache entry of their resource was cleared
    onceRuns,        \* history: per callback registered with eventBus.once, the
                     \* number of times it has been called since
    components,      \* the Sidebar and RoleSwitcher components: lifecycle,
                     \* event-bus subscriptions and state
    table,           \* DataTable.state
    submitting,      \* FormBuilder.state.submitting
    awaiting         \* the handleSubmit calls that wait for props.onSubmit

cfgVars    == <<mode, workflows, walk>>
roleVars   == <<roles, permissions, currentRole, lsRole>>
authVars   == <<lsUser, lsSession>>
storeVars  == <<storeUser, storeSession, storeRole>>
navVars    == <<navigationData, sidebar>>
assessVars == <<templates, assessNull, assessments, cache, nextId>>
loadVars   == <<cacheData, pendingRequests, requests, callers>>
apiVars    == <<apiCache, loadVars>>
opVars     == <<call, ret, emitted, saved, postRun>>
backendVars == <<hits, dbAssessments, ran>>
formVars   == <<fields, values, errors, touched>>
pubsubVars == <<listeners, events, invoked>>
questionVars == <<questions, responses>>
onceVars == <<onceRuns>>
compVars == <<components>>
tableVars == <<table>>
submitVars == <<submitting, awaiting>>
notOnceVars == <<compVars, tableVars, submitVars>>
notCompVars == <<onceVars, tableVars, submitVars>>
notTableVars == <<onceVars, compVars, submitVars>>
notSubmitVars == <<onceVars, compVars, tableVars>>
newerVars == <<onceVars, compVars, tableVars, submitVars>>
otherLateVars == <<questionVars, newerVars>>
lateVars   == <<invalidated, otherLateVars>>
extVars    == <<backendVars, formVars, pubsubVars, lateVars>>
frontVars  == <<cfgVars, roleVars, authVars, storeVars, navVars, assessVars, apiVars>>
vars == <<cfgVars, roleVars, authVars, storeVars, navVars, assessVars, apiVars, opVars,
          extVars>>

\* ---------------------------------------------------------------- helpers

Range(s) == {s[i] : i \in 1..Len(s)}

\* obj[key] !== undefined
Has(obj, key) == key \in DOMAIN obj

\* the element of a one-element set; The({e : x \in {v}}) is `const x = v; e`,
\* with v evaluated once
The(S) == CHOOSE r \in S : TRUE

\* null / undefined for an object map
Null == [k \in {} |-> 0]

\* String.prototype.includes: t occurs in s as a contiguous run
Includes(s, t) ==
    \E i \in 0..(Len(s) - Len(t)) : SubSeq(s, i + 1, i + Len(t)) = t

\* ------------------------------------------------- ConfigService: workflows

\* A transition of the table: hasRoles is FALSE when the entry has no roles key.
Transition(to, rs) == [to |-> to, hasRoles |-> TRUE, roles |-> rs, post_actions |-> <<>>]

DefaultWorkflows_DirectPublish ==
    [assessment |->
        [states |-> <<"draft", "active", "in_review", "approved", "published", "archived">>,
         initialState |-> "draft",
         transitions |->
            [draft |-> << Transition("active", {"customer_admin", "domain_manager"}) >>,
             active |-> << Transition("in_review", {"contributor", "domain_manager"}),
                           Transition("archived", {"customer_admin"}),
                           Transition("published", {"customer_admin"}) >>,
             in_review |-> << Transition("approved", {"reviewer", "customer_admin"}),
                              Transition("active", {"reviewer", "customer_admin"}) >>,
             approved |-> << Transition("published", {"customer_admin"}) >>]]]

\* getDefaultWorkflows()
DefaultWorkflows ==
    [assessment |->
        [states |-> <<"draft", "active", "in_review", "approved", "published", "archived">>,
         initialState |-> "draft",
         transitions |->
            [draft |-> << Transition("active", {"customer_admin", "domain_manager"}) >>,
             active |-> << Transition("in_review", {"contributor", "domain_manager"}),
                           Transition("archived", {"customer_admin"}) >>,
             in_review |-> << Transition("approved", {"reviewer", "customer_admin"}),
                              Transition("active", {"reviewer", "customer_admin"}) >>,
             approved |-> << Transition("published", {"customer_admin"}) >>]]]

\* A workflow configuration as the database may deliver it (config_workflows):
\* an unrestricted transition (no roles key), an empty allow-list, transitions
\* with post_actions, and a workflow type that declares no transitions.
CustomWorkflows ==
    [assessment |->
        [states |-> <<"draft", "active", "in_review", "approved", "published", "archived">>,
         initialState |-> "draft",
         transitions |->
            [draft |-> << [to |-> "active", hasRoles |-> FALSE, roles |-> {},
                           post_actions |-> <<"notify", "calculate_score">>] >>,
             active |-> << [to |-> "in_review", hasRoles |-> TRUE,
                            roles |-> {"contributor", "domain_manager"},
                            post_actions |-> <<"assign", "create_action_items">>],
                           Transition("archived", {}) >>,
             in_review |-> << Transition("approved", {"reviewer"}),
                              Transition("active", {"reviewer", "customer_admin"}) >>,
             approved |-> << Transition("published", {"customer_admin"}) >>]],
     question |->
        [states |-> <<"draft", "published">>,
         initialState |-> "draft",
         transitions |-> Null]]

WorkflowConfigs == {Null, DefaultWorkflows, CustomWorkflows}

WorkflowTypes == {"assessment", "question", "response"}
WfStates == {"draft", "active", "in_review", "approved", "published", "archived", "deleted"}
RoleIds == {"customer_admin", "domain_manager", "contributor", "reviewer", "observer"}
UnknownRole == "ghost"

\* getWorkflow(workflowType): null when no configuration is loaded, undefined for
\* an unknown type; both are the empty map here.
getWorkflow(wfs, workflowType) ==
    IF Has(wfs, workflowType) THEN wfs[workflowType] ELSE Null

getAllowedTransitions_AnyRole(wfs, workflowType, currentState, roleId) ==
    LET workflow == getWorkflow(wfs, workflowType) IN
    IF workflow = Null \/ workflow.transitions = Null THEN <<>>
    ELSE IF Has(workflow.transitions, currentState)
         THEN workflow.transitions[currentState] ELSE <<>>

getAllowedTransitions(wfs, workflowType, currentState, roleId) ==
    LET workflow == getWorkflow(wfs, workflowType) IN
    IF workflow = Null \/ workflow.transitions = Null THEN <<>>
    ELSE LET stateTransitions ==
                 IF Has(workflow.transitions, currentState)
                 THEN workflow.transitions[currentState] ELSE <<>>
             Allowed(transition) == ~transition.hasRoles \/ roleId \in transition.roles
         IN SelectSeq(stateTransitions, Allowed)

canTransition(wfs, workflowType, fromState, toState, roleId) ==
    LET allowedTransitions == getAllowedTransitions(wfs, workflowType, fromState, roleId)
    IN \E i \in 1..Len(allowedTransitions) : allowedTransitions[i].to = toState

\* ------------------------------------------------------ state at construction

None == "<null>"          \* null / undefined for an identifier or a scalar
DefaultRole == "customer_admin"                      \* APP_CONFIG.ui.defaultRole

\* the store singleton's initial state (user, session, currentRole)
StoreInitUser == [id |-> None, role |-> DefaultRole, permissions |-> {}]
StoreInitSession == [isAuthenticated |-> FALSE, token |-> None, expiresAt |-> 0]
\* (the initial currentRole has no navigation and no permissions key)
StoreInitRole == [id |-> DefaultRole, name |-> "Customer Admin",
                  navigation |-> [kind |-> "undefined", list |-> {}], permissions |-> {}]
SidebarInit == [subscribed |-> FALSE, menuItems |-> <<>>, currentRole |-> Null]

NoCall == [op |-> "none", args |-> <<>>]

CfgConstructed    == workflows = Null /\ walk = <<>>
RoleConstructed   == roles = Null /\ permissions = Null /\ currentRole = None
AuthConstructed   == lsUser = Null /\ lsSession = Null
StoreConstructed  == storeUser = StoreInitUser /\ storeSession = StoreInitSession
                     /\ storeRole = StoreInitRole
NavConstructed    == navigationData = <<>> /\ sidebar = SidebarInit
AssessConstructed == templates = {} /\ assessNull = TRUE /\ assessments = <<>>
                     /\ cache = Null /\ nextId = 0
LoadConstructed   == cacheData = Null /\ pendingRequests = Null /\ requests = <<>>
                     /\ callers = <<>>
ApiConstructed    == apiCache = {} /\ LoadConstructed
BackendStopped    == hits = 0 /\ dbAssessments = <<>> /\ ran = <<>>
FormUnmounted     == fields = <<>> /\ values = Null /\ errors = Null /\ touched = {}
PubSubConstructed == listeners = <<>> /\ events = Null /\ invoked = <<>>
QuestionsConstructed == questions = {} /\ responses = Null
ComponentNames == {"Sidebar", "RoleSwitcher"}
\* Component constructor and the state the two subclasses set
ComponentConstructed ==
    [pc |-> "constructed", mounted |-> FALSE, destroyed |-> FALSE,
     subscriptions |-> <<>>, state |-> [currentRole |-> Null, menuItems |-> <<>>]]
\* DataTable constructor: filteredData is a copy of props.data
NewTable(data, pageSize) ==
    [data |-> data, filteredData |-> data, sortColumn |-> None, sortDirection |-> "asc",
     currentPage |-> 1, pageSize |-> pageSize, searchQuery |-> <<>>, selectedRows |-> {}]
NotTableConstructed ==
    /\ onceRuns = Null /\ components = [c \in ComponentNames |-> ComponentConstructed]
    /\ submitting = FALSE /\ awaiting = 0
NewerConstructed == NotTableConstructed /\ table = NewTable(<<>>, 20)
LateConstructed   == QuestionsConstructed /\ invalidated = {} /\ NewerConstructed
ExtConstructed    == BackendStopped /\ FormUnmounted /\ PubSubConstructed
                     /\ LateConstructed
OpConstructed     == call = NoCall /\ ret = None /\ emitted = <<>> /\ saved = <<>>
                     /\ postRun = <<>>

\* ------------------------------------------------------------------------
\* Workflow engine as a pure function: the configuration and the arguments
\* range over bounded sets, and CanTransitionCall applies canTransition.
\* ------------------------------------------------------------------------

InitWorkflow ==
    /\ mode = "local" /\ lsRole = None
    /\ workflows \in WorkflowConfigs /\ walk = <<>>
    /\ RoleConstructed /\ AuthConstructed /\ StoreConstructed /\ NavConstructed
    /\ AssessConstructed /\ ExtConstructed /\ ApiConstructed /\ OpConstructed

CanTransitionCall ==
    \E workflowType \in WorkflowTypes, fromState \in WfStates, toState \in WfStates,
       roleId \in RoleIds \cup {UnknownRole} :
        /\ call' = [op |-> "canTransition",
                    args |-> <<workflowType, fromState, toState, roleId>>]
        /\ ret' = canTransition(workflows, workflowType, fromState, toState, roleId)
        /\ emitted' = <<>> /\ saved' = <<>> /\ postRun' = <<>>
        /\ UNCHANGED <<extVars, cfgVars, roleVars, authVars, storeVars, navVars, assessVars, apiVars>>

NextWorkflow == CanTransitionCall

SpecWorkflow == InitWorkflow /\ [][NextWorkflow]_vars

\* The transition table's entries from fromState, as a set (empty for an unknown
\* workflow type, a workflow without table, or a state without entry).
TableEntries(workflowType, fromState) ==
    IF /\ Has(workflows, workflowType)
       /\ Has(workflows[workflowType].transitions, fromState)
    THEN Range(workflows[workflowType].transitions[fromState])
    ELSE {}

\* C3: canTransition(type, from, to, role) is true iff the table has an entry
\* from `from` whose target is `to` and whose role allow-list is absent or
\* contains role; it is false for an unknown type and for a state with no entry.
C3_CanTransitionIffTable ==
    call.op = "canTransition" =>
        LET workflowType == call.args[1]
            fromState == call.args[2]
            toState == call.args[3]
            roleId == call.args[4]
        IN /\ ret = (\E t \in TableEntries(workflowType, fromState) :
                        t.to = toState /\ (~t.hasRoles \/ roleId \in t.roles))
           /\ (~Has(workflows, workflowType) => ret = FALSE)
           /\ (Has(workflows, workflowType)
                 /\ ~Has(workflows[workflowType].transitions, fromState) => ret = FALSE)

\* C3 witness: a transition granted through an absent allow-list to a role no
\* list names, and one refused because the allow-list lacks the role.
C3_Witness ==
    /\ call.op = "canTransition"
    /\ workflows = CustomWorkflows
    /\ call.args = <<"assessment", "draft", "active", UnknownRole>>
    /\ ret = TRUE

\* ------------------------------------------------------------------------
\* RoleService.hasPermission as a pure function: the active role's permission
\* list ranges over the subsets of PermEntries, the arguments over PermActions
\* and PermResources.
\* ------------------------------------------------------------------------

Star == <<"*">>
Colon == <<":">>
AdminStar == <<"admin", ":", "*">>

\* hasPermission(permission, resource = null) for RoleService state (perms, role).
\* resource is <<>> when omitted, <<r>> when passed; '' and null are falsy.
hasPermission(perms, role, permission, resource) ==
    IF perms = Null \/ role = None THEN FALSE
    ELSE IF ~Has(perms, role) THEN FALSE
    ELSE LET rolePerms == perms[role] IN
         IF Star \in rolePerms \/ AdminStar \in rolePerms THEN TRUE
         ELSE IF resource # <<>> /\ resource[1] # <<>>
              THEN LET fullPermission == permission \o Colon \o resource[1]
                   IN fullPermission \in rolePerms \/ (permission \o Colon \o Star) \in rolePerms
              ELSE permission \in rolePerms

PermEntries ==
    { Star, AdminStar, <<"read", ":", "*">>, <<"read", ":", "assessments">>,
      <<"read">>, <<"write", ":", "assessments">> }
PermActions == { <<"read">>, <<"write">> }
PermResources == { <<>>, << <<>> >>, << <<"assessments">> >>, << <<"reports">> >>, << Star >> }

InitPerm ==
    /\ mode = "local" /\ lsRole = None
    /\ CfgConstructed /\ AuthConstructed /\ StoreConstructed /\ NavConstructed
    /\ AssessConstructed /\ ExtConstructed /\ ApiConstructed /\ OpConstructed
    /\ roles = Null
    /\ currentRole = DefaultRole
    /\ \E list \in SUBSET PermEntries : permissions = [r \in {DefaultRole} |-> list]

HasPermissionCall ==
    \E permission \in PermActions, resource \in PermResources :
        /\ call' = [op |-> "hasPermission", args |-> <<permission, resource>>]
        /\ ret' = hasPermission(permissions, currentRole, permission, resource)
        /\ emitted' = <<>> /\ saved' = <<>> /\ postRun' = <<>>
        /\ UNCHANGED <<extVars, cfgVars, roleVars, authVars, storeVars, navVars, assessVars, apiVars>>

NextPerm == HasPermissionCall

SpecPerm == InitPerm /\ [][NextPerm]_vars

\* a resource was passed (and is a non-empty string)
ResourceGiven(resource) == resource # <<>> /\ resource[1] # <<>>

\* C5: hasPermission(action, resource) is true iff the active role's list holds
\* '*', or 'action:*', or (resource given) 'action:resource', or (no resource
\* given) the bare 'action'; no other entry grants the permission.
C5_HasPermissionIff ==
    call.op = "hasPermission" =>
        LET action == call.args[1]
            resource == call.args[2]
            list == permissions[currentRole]
        IN ret = ( \/ Star \in list
                   \/ (action \o Colon \o Star) \in list
                   \/ (ResourceGiven(resource) /\ (action \o Colon \o resource[1]) \in list)
                   \/ (~ResourceGiven(resource) /\ action \in list) )

\* C6: with '*' or 'action:*' in the active role's list, hasPermission(action,
\* resource) is true for every resource, also when none is passed.
C6_WildcardAnyResource ==
    call.op = "hasPermission" =>
        LET action == call.args[1]
            list == permissions[currentRole]
        IN (Star \in list \/ (action \o Colon \o Star) \in list) => ret = TRUE

\* ------------------------------------------------------------------------
\* Roles, permission matrix and navigation as loaded from roles.json,
\* permissions.json and navigation.json.  Navigation ids, hrefs and allow-list
\* entries are character sequences, so that includes() is a substring test.
\* ------------------------------------------------------------------------

NavAll == [kind |-> "all", list |-> {}]                \* navigation: 'all'
NavList(entries) == [kind |-> "list", list |-> entries] \* navigation: [...]
NavUndefined == [kind |-> "undefined", list |-> {}]     \* no navigation key

s_dash == <<"d", "a", "s", "h">>
s_as == <<"a", "s">>
s_tmpl == <<"t", "m", "p", "l">>
s_team == <<"t", "e", "a", "m">>

\* navigation.json: item 2 matches "tmpl" through its href only, items 2 and 3
\* match the partial entry "as" through their ids.
NavigationFixture ==
    << [id |-> s_dash, href |-> <<"2", "_">> \o s_dash],
       [id |-> s_as \o <<"-", "l">>, href |-> <<"3", "_">> \o s_tmpl],
       [id |-> s_as \o <<"-", "d">>, href |-> <<"4", "_">> \o s_as \o <<"-", "d">>],
       [id |-> s_team, href |-> <<"5", "_">> \o s_team] >>

\* window.location.pathname.split('/').pop()
PageFile == <<"2", "_">> \o s_dash

RolesFixture ==
    [customer_admin |-> [name |-> "Customer Admin", navigation |-> NavAll],
     domain_manager |-> [name |-> "Domain Manager", navigation |-> NavList({s_dash, s_as})],
     contributor    |-> [name |-> "Contributor", navigation |-> NavList({s_tmpl})],
     reviewer       |-> [name |-> "Reviewer", navigation |-> NavList({})],
     observer       |-> [name |-> "Observer", navigation |-> NavUndefined]]

P(action, resource) == <<action, ":", resource>>

PermissionsFixture ==
    [customer_admin |-> {P("create", "assessments"), P("write", "*"), P("read", "*")},
     domain_manager |-> {P("write", "assessments"), P("read", "assessments")},
     contributor    |-> {P("write", "assessments"), P("read", "assessments")},
     reviewer       |-> {P("read", "*")},
     observer       |-> {P("read", "assessments")}]

\* --------------------------------------------------- NavigationService

\* RoleService.getCurrentRole(): null without roles, undefined for an unknown id
getCurrentRole(rolesMap, cur) ==
    IF rolesMap # Null /\ Has(rolesMap, cur) THEN rolesMap[cur] ELSE Null

\* isCurrentPage(item.id): the item found by id, its href against the file name
isCurrentPage(navData, itemId) ==
    \E i \in 1..Len(navData) :
        /\ navData[i].id = itemId
        /\ \A j \in 1..(i - 1) : navData[j].id # itemId
        /\ (navData[i].href = PageFile \/ Includes(navData[i].href, PageFile))

isItemAllowedForRole(item, allowedNav) ==
    IF allowedNav.kind = "all" THEN TRUE
    ELSE IF allowedNav.kind # "list" THEN FALSE
    ELSE \E allowed \in allowedNav.list :
            Includes(item.id, allowed) \/ Includes(item.href, allowed)

\* One annotated menu item.  The 'all' branch sets no isDisabled key
\* (hasDisabled FALSE; the key then reads as undefined, i.e. falsy).
MenuItem(navData, item, isAllowed, hasDisabled) ==
    [id |-> item.id, href |-> item.href, isAllowed |-> isAllowed,
     hasDisabled |-> hasDisabled, isDisabled |-> (hasDisabled /\ ~isAllowed),
     isActive |-> isCurrentPage(navData, item.id)]

\* buildMenu(roleId): the role is roleService.getCurrentRole(), whatever roleId is
buildMenu(navData, rolesMap, cur, roleId) ==
    IF navData = <<>> THEN <<>>
    ELSE LET role == getCurrentRole(rolesMap, cur) IN
         IF role = Null THEN <<>>
         ELSE LET allowedNav == role.navigation IN
              IF allowedNav.kind = "all"
              THEN [i \in 1..Len(navData) |-> MenuItem(navData, navData[i], TRUE, FALSE)]
              ELSE [i \in 1..Len(navData) |->
                        MenuItem(navData, navData[i],
                                 isItemAllowedForRole(navData[i], allowedNav), TRUE)]

\* ------------------------------------------------------------------------
\* buildMenu under every active role and every role argument; the observer
\* role's allow-list ranges over the subsets of NavEntries.
\* ------------------------------------------------------------------------

NavEntries == {s_as, s_tmpl, <<"s", "h">>}

InitNav ==
    /\ mode = "local" /\ lsRole = None
    /\ CfgConstructed /\ AuthConstructed /\ StoreConstructed
    /\ AssessConstructed /\ ExtConstructed /\ ApiConstructed /\ OpConstructed
    /\ \E list \in SUBSET NavEntries :
          roles = [RolesFixture EXCEPT !["observer"].navigation = NavList(list)]
    /\ permissions = PermissionsFixture
    /\ currentRole \in RoleIds
    /\ navigationData = NavigationFixture
    /\ sidebar = SidebarInit

BuildMenuCall ==
    \E roleId \in RoleIds \cup {UnknownRole} :
        /\ call' = [op |-> "buildMenu", args |-> <<roleId>>]
        /\ ret' = buildMenu(navigationData, roles, currentRole, roleId)
        /\ emitted' = <<>> /\ saved' = <<>> /\ postRun' = <<>>
        /\ UNCHANGED <<extVars, cfgVars, roleVars, authVars, storeVars, navVars, assessVars, apiVars>>

NextNav == BuildMenuCall

SpecNav == InitNav /\ [][NextNav]_vars

\* what the allow-list rule of the specification gives for role R and item I
AllowedByRule(R, I) ==
    \/ R.navigation.kind = "all"
    \/ /\ R.navigation.kind = "list"
       /\ \E entry \in R.navigation.list : Includes(I.id, entry) \/ Includes(I.href, entry)

\* C10: for every role R and item I, buildMenu(R) marks I allowed iff R's
\* allow-list is 'all' or I's id or href contains an entry of it, for the role
\* passed as argument, whichever role is active.
C10_BuildMenuOfArgument ==
    (call.op = "buildMenu" /\ Has(roles, call.args[1])) =>
        /\ Len(ret) = Len(navigationData)
        /\ \A i \in 1..Len(ret) :
              ret[i].isAllowed = AllowedByRule(roles[call.args[1]], navigationData[i])

\* C11: once navigation data and a role are loaded, buildMenu returns the
\* loaded items, one result per item in the same order, each with an allowed
\* flag and a disabled flag that is the negation of the allowed flag.
C11_MenuKeepsEveryItem ==
    (call.op = "buildMenu" /\ navigationData # <<>>
        /\ getCurrentRole(roles, currentRole) # Null) =>
        /\ Len(ret) = Len(navigationData)
        /\ \A i \in 1..Len(ret) :
              /\ ret[i].id = navigationData[i].id
              /\ ret[i].href = navigationData[i].href
              /\ ret[i].hasDisabled
              /\ ret[i].isDisabled = ~ret[i].isAllowed

\* ------------------------------------------------------------------------
\* Event bus, ApiService.load/save outcomes, Store, AuthService and
\* RoleService as operations on the state.
\* ------------------------------------------------------------------------

\* eventBus.emit(type, data)
Ev(type, data) == [type |-> type, data |-> data]

EventsOfType(evs, type) == {i \in 1..Len(evs) : evs[i].type = type}

\* APP_CONFIG.dataSources.local.files and APP_CONFIG.api.endpoints
LocalFiles == {"roles", "permissions", "navigation", "templates", "questions",
               "assessments", "actions", "team"}
ApiEndpoints == {"auth", "users", "roles", "assessments", "questions", "templates",
                 "reviews", "actions", "progress", "team"}

\* loadLocal / loadRemote throw when the resource has no file / endpoint
Configured(m, resource) ==
    resource \in (IF m = "local" THEN LocalFiles ELSE ApiEndpoints)

\* apiService.load(resource) run to completion: a cached result is returned
\* without fetch and without event; otherwise the fetch succeeds (fetchOk) or not.
load(m, cached, resource, fetchOk) ==
    IF resource \in cached
    THEN [ok |-> TRUE, cache |-> cached, events |-> <<>>]
    ELSE IF Configured(m, resource) /\ fetchOk
         THEN [ok |-> TRUE, cache |-> cached \cup {resource},
               events |-> << Ev("data:loaded", resource) >>]
         ELSE [ok |-> FALSE, cache |-> cached,
               events |-> << Ev("data:error", resource) >>]

\* one apiService.save(resource, data, method) request and whether it succeeded
SaveReq(resource, method, ok) == [resource |-> resource, method |-> method, ok |-> ok]

\* updateStoreRole(roleId): store.setState({currentRole: {...}}) when the role
\* exists; this.permissions[roleId] throws a TypeError when permissions is null.
updateStoreRole(rolesMap, perms, roleId, sr) ==
    IF ~Has(rolesMap, roleId)
    THEN [threw |-> FALSE, storeRole |-> sr, events |-> <<>>]
    ELSE IF perms = Null
         THEN [threw |-> TRUE, storeRole |-> sr, events |-> <<>>]
         ELSE [threw |-> FALSE,
               storeRole |-> [id |-> roleId,
                              name |-> rolesMap[roleId].name,
                              navigation |-> rolesMap[roleId].navigation,
                              permissions |-> IF Has(perms, roleId) THEN perms[roleId] ELSE {}],
               events |-> << Ev("state:updated", roleId) >>]

\* RoleService.initialize(): what it leaves behind, given the two fetch outcomes
roleInitialize(okRoles, okPerms) ==
    LET l1 == load(mode, apiCache, "roles", okRoles)
        same == [ret |-> FALSE, roles |-> roles, permissions |-> permissions,
                 currentRole |-> currentRole, storeRole |-> storeRole,
                 apiCache |-> l1.cache, emitted |-> l1.events]
    IN IF ~l1.ok THEN same
       ELSE LET l2 == load(mode, l1.cache, "permissions", okPerms) IN
            IF ~l2.ok
            THEN [same EXCEPT !.roles = RolesFixture, !.apiCache = l2.cache,
                              !.emitted = l1.events \o l2.events]
            ELSE LET savedRoleId == lsRole
                     cur == IF savedRoleId # None THEN savedRoleId ELSE DefaultRole
                     us == updateStoreRole(RolesFixture, PermissionsFixture, cur, storeRole)
                 IN [ret |-> TRUE, roles |-> RolesFixture,
                     permissions |-> PermissionsFixture,
                     currentRole |-> cur, storeRole |-> us.storeRole,
                     apiCache |-> l2.cache,
                     emitted |-> l1.events \o l2.events \o us.events
                                 \o << Ev("role:loaded", cur) >>]

\* Sidebar.onRoleChanged(data), run by the event bus when the Sidebar subscribed
onRoleChanged(sb, navData, rolesMap, cur, data) ==
    IF sb.subscribed
    THEN [sb EXCEPT !.currentRole = data.role,
                    !.menuItems = buildMenu(navData, rolesMap, cur, data.roleId)]
    ELSE sb

roleFound_Unchecked(rolesMap, roleId) == TRUE

\* const role = this.roles[roleId]; if (!role) throw (a null roles map throws too)
roleFound(rolesMap, roleId) == rolesMap # Null /\ Has(rolesMap, roleId)

\* if (mode === 'api') { response = await save(...); if (!response.success) throw }
putRejected_Ignored(m, backendOk) == FALSE

putRejected(m, backendOk) == m = "api" /\ ~backendOk

\* RoleService.switchRole(roleId): what it leaves behind; backendOk is the
\* outcome of the PUT user/role request that api mode makes.
switchRole(roleId, backendOk) ==
    LET failed == [ret |-> FALSE, currentRole |-> currentRole, lsRole |-> lsRole,
                   storeRole |-> storeRole, sidebar |-> sidebar, saved |-> <<>>,
                   emitted |-> << Ev("data:error", "switchRole") >>]
        req == IF mode = "api" THEN << SaveReq("user/role", "PUT", backendOk) >> ELSE <<>>
    IN IF ~roleFound(roles, roleId) THEN failed
       ELSE IF putRejected(mode, backendOk) THEN [failed EXCEPT !.saved = req]
       ELSE LET role == getCurrentRole(roles, roleId)
                saveEv == IF mode = "api" THEN << Ev("data:updated", "user/role") >> ELSE <<>>
                us == updateStoreRole(roles, permissions, roleId, storeRole)
                data == [roleId |-> roleId, role |-> role]
            IN IF us.threw
               THEN [failed EXCEPT !.currentRole = roleId, !.lsRole = roleId, !.saved = req,
                                   !.emitted = saveEv \o << Ev("data:error", "switchRole") >>]
               ELSE [ret |-> TRUE, currentRole |-> roleId, lsRole |-> roleId,
                     storeRole |-> us.storeRole,
                     sidebar |-> onRoleChanged(sidebar, navigationData, roles, roleId, data),
                     saved |-> req,
                     emitted |-> saveEv \o us.events \o
                        << [type |-> "role:changed", data |-> data,
                            seen |-> [currentRole |-> roleId, lsRole |-> roleId,
                                      storeRole |-> us.storeRole.id]] >>]

\* AuthService.getRolePermissions: the hardcoded table
AuthRolePermissions ==
    [reabel_superadmin |-> {Star},
     reabel_csm |-> {P("read", "all"), P("write", "customer"), P("manage", "support")},
     reabel_analyst |-> {P("read", "all")},
     customer_admin |-> {P("read", "own"), P("write", "own"), P("manage", "team"),
                         P("manage", "assessment")},
     domain_manager |-> {P("read", "own"), P("write", "assigned"), P("review", "assigned")},
     contributor |-> {P("read", "assigned"), P("write", "assigned")},
     reviewer |-> {P("read", "all"), P("review", "all"), P("approve", "all")},
     observer |-> {P("read", "all")}]

getRolePermissions(roleId) ==
    IF Has(AuthRolePermissions, roleId) THEN AuthRolePermissions[roleId] ELSE {}

\* AuthService.hasPermission(permission): store.get('user.permissions').includes
authHasPermission(user, permission) == permission \in user.permissions

AuthPermissions == UNION {AuthRolePermissions[r] : r \in DOMAIN AuthRolePermissions}

\* ---------------------------------------------------------------- actions

RoleInitialize ==
    \E okRoles \in BOOLEAN, okPerms \in BOOLEAN :
        LET r == roleInitialize(okRoles, okPerms) IN
        /\ call' = [op |-> "roleService.initialize", args |-> <<>>]
        /\ ret' = r.ret
        /\ roles' = r.roles /\ permissions' = r.permissions
        /\ currentRole' = r.currentRole /\ storeRole' = r.storeRole
        /\ apiCache' = r.apiCache /\ emitted' = r.emitted
        /\ saved' = <<>> /\ postRun' = <<>>
        /\ UNCHANGED <<extVars, loadVars, cfgVars, lsRole, authVars, storeUser, storeSession, navVars, assessVars>>

\* switchRole(roleId) for a role id of roleIds; the PUT request is made, and can
\* fail, in api mode only
SwitchRoleAmong(roleIds) ==
    \E roleId \in roleIds, backendOk \in (IF mode = "api" THEN BOOLEAN ELSE {TRUE}) :
        LET r == switchRole(roleId, backendOk) IN
        /\ call' = [op |-> "switchRole", args |-> <<roleId>>]
        /\ ret' = r.ret
        /\ currentRole' = r.currentRole /\ lsRole' = r.lsRole
        /\ storeRole' = r.storeRole /\ sidebar' = r.sidebar
        /\ emitted' = r.emitted /\ saved' = r.saved /\ postRun' = <<>>
        /\ UNCHANGED <<extVars, cfgVars, roles, permissions, authVars, storeUser, storeSession,
                       navigationData, assessVars, apiVars>>

SwitchRole == SwitchRoleAmong(RoleIds \cup {UnknownRole})

\* AuthService.login in the demo environment: demoLogin + handleLoginSuccess.
\* The session expires one tick after the login instant (24 hours).
Login ==
    LET role == IF storeRole.id # None THEN storeRole.id ELSE "customer_admin"
        user == [id |-> "12345", role |-> role]
        session == [token |-> "demo-token", expiresAt |-> 1]
    IN /\ call' = [op |-> "login", args |-> <<>>]
       /\ storeUser' = [id |-> user.id, role |-> user.role,
                        permissions |-> getRolePermissions(user.role)]
       /\ storeSession' = [isAuthenticated |-> TRUE, token |-> session.token,
                           expiresAt |-> session.expiresAt]
       /\ lsUser' = user /\ lsSession' = session
       /\ emitted' = << Ev("state:updated", user.role), Ev("user:logged-in", user.role) >>
       /\ ret' = TRUE
       /\ saved' = <<>> /\ postRun' = <<>>
       /\ UNCHANGED <<extVars, cfgVars, roleVars, storeRole, navVars, assessVars, apiVars>>

AuthHasPermissionCall ==
    \E permission \in AuthPermissions :
        /\ call' = [op |-> "authService.hasPermission", args |-> <<permission>>]
        /\ ret' = authHasPermission(storeUser, permission)
        /\ emitted' = <<>> /\ saved' = <<>> /\ postRun' = <<>>
        /\ UNCHANGED <<extVars, cfgVars, roleVars, authVars, storeVars, navVars, assessVars, apiVars>>

\* Sidebar.beforeMount(): role service and navigation are initialised, the menu
\* is built for the active role and the role-changed subscription is made.
SidebarBeforeMount ==
    /\ ~sidebar.subscribed
    /\ \E okRoles \in BOOLEAN, okPerms \in BOOLEAN, okNav \in BOOLEAN :
        LET r == roleInitialize(okRoles, okPerms)
            l3 == load(mode, r.apiCache, "navigation", okNav)
            nav == IF l3.ok THEN NavigationFixture ELSE navigationData
            navEv == IF l3.ok THEN << Ev("nav:loaded", "navigation") >> ELSE <<>>
        IN /\ call' = [op |-> "Sidebar.beforeMount", args |-> <<>>]
           /\ ret' = None
           /\ roles' = r.roles /\ permissions' = r.permissions
           /\ currentRole' = r.currentRole /\ storeRole' = r.storeRole
           /\ apiCache' = l3.cache
           /\ navigationData' = nav
           /\ sidebar' = [subscribed |-> TRUE,
                          currentRole |-> getCurrentRole(r.roles, r.currentRole),
                          menuItems |-> buildMenu(nav, r.roles, r.currentRole, r.currentRole)]
           /\ emitted' = r.emitted \o l3.events \o navEv
           /\ saved' = <<>> /\ postRun' = <<>>
           /\ UNCHANGED <<extVars, loadVars, cfgVars, lsRole, authVars, storeUser, storeSession, assessVars>>

\* A role id left in client storage by an earlier page load
StoredRoleIds == {None, "observer", UnknownRole}

InitRole ==
    /\ mode \in {"local", "api"}
    /\ lsRole \in StoredRoleIds
    /\ CfgConstructed /\ RoleConstructed /\ AuthConstructed /\ StoreConstructed
    /\ NavConstructed /\ AssessConstructed /\ ExtConstructed /\ ApiConstructed /\ OpConstructed

NextRole ==
    \/ RoleInitialize
    \/ SwitchRole
    \/ Login
    \/ AuthHasPermissionCall
    \/ SidebarBeforeMount

SpecRole == InitRole /\ [][NextRole]_vars

NoRoleChanged(evs) == EventsOfType(evs, "role:changed") = {}

\* C7: switchRole(roleId) with a role id that is not in the loaded role set
\* returns false, leaves the active role, the store's currentRole and the role,
\* user and session values in client storage unchanged, and emits no
\* role-changed event.
C7_UnknownRoleRejected ==
    [][ (call'.op = "switchRole" /\ ~Has(roles, call'.args[1])) =>
            /\ ret' = FALSE
            /\ currentRole' = currentRole
            /\ storeRole' = storeRole
            /\ lsRole' = lsRole /\ lsUser' = lsUser /\ lsSession' = lsSession
            /\ NoRoleChanged(emitted') ]_vars

\* C7 witness: an unknown id was refused while a role set was loaded, a role
\* was active and a logged-in session was stored.
C7_Witness ==
    /\ call.op = "switchRole" /\ call.args[1] = UnknownRole /\ ret = FALSE
    /\ roles # Null /\ currentRole \in RoleIds
    /\ lsSession # Null /\ lsRole \in RoleIds

\* the backend refused the PUT user/role request of the last switchRole
BackendRejected == saved # <<>> /\ ~saved[1].ok

\* C8: switchRole(roleId) with a known role id (one the backend does not
\* refuse) makes roleId the active role, writes it to client storage, sets the
\* store's currentRole to it and then emits exactly one role-changed event that
\* carries roleId and the role's definition, whose observers see the new role.
C8_KnownRoleSwitched ==
    (call.op = "switchRole" /\ Has(roles, call.args[1]) /\ ~BackendRejected) =>
        LET roleId == call.args[1]
            changed == EventsOfType(emitted, "role:changed")
        IN /\ currentRole = roleId
           /\ lsRole = roleId
           /\ storeRole.id = roleId
           /\ Cardinality(changed) = 1
           /\ \A i \in changed :
                /\ i = Len(emitted)
                /\ emitted[i].data = [roleId |-> roleId, role |-> roles[roleId]]
                /\ emitted[i].seen = [currentRole |-> roleId, lsRole |-> roleId,
                                      storeRole |-> roleId]

\* the Sidebar's menu as the allow-list rule gives it for role r
MenuAllowedFor(r) ==
    [i \in 1..Len(navigationData) |-> AllowedByRule(roles[r], navigationData[i])]

\* C9: after a successful switch to role r every permission decision is derived
\* from r: roleService.hasPermission reads r's list, authService.hasPermission
\* (for a logged-in user) answers as r's permissions do, and a subscribed
\* Sidebar shows r's menu.
C9_DecisionsFollowSwitch ==
    (call.op = "switchRole" /\ ret = TRUE) =>
        LET r == call.args[1] IN
        /\ \A a \in PermActions, res \in PermResources :
              hasPermission(permissions, currentRole, a, res)
                  = hasPermission(permissions, r, a, res)
        /\ storeSession.isAuthenticated =>
              \A p \in AuthPermissions :
                  authHasPermission(storeUser, p) = (p \in getRolePermissions(r))
        /\ sidebar.subscribed =>
              /\ Len(sidebar.menuItems) = Len(navigationData)
              /\ \A i \in 1..Len(sidebar.menuItems) :
                    sidebar.menuItems[i].isAllowed = MenuAllowedFor(r)[i]

\* ------------------------------------------------------------------------
\* AssessmentService: the assessment list, the per-id cache in front of it,
\* create / update / transition and the post-transition actions.
\* An assessment is a record; objects are never mutated in place by the
\* service (updateAssessment builds a new object), so value semantics is exact.
\* ------------------------------------------------------------------------

\* apiService.save(resource, data, method) run to completion: local mode only
\* caches and emits; api mode sends the request, whose outcome is ok.
save(m, cached, resource, method, ok) ==
    IF m = "local"
    THEN [ok |-> TRUE, cache |-> cached \cup {resource},
          req |-> << SaveReq(resource, method, TRUE) >>,
          events |-> << Ev("data:updated", resource) >>]
    ELSE [ok |-> ok, cache |-> IF ok THEN cached \ {resource} ELSE cached,
          req |-> << SaveReq(resource, method, ok) >>,
          events |-> IF ok THEN << Ev("data:updated", resource) >> ELSE <<>>]

\* titles are character sequences (validateAssessmentData looks at the length)
ShortTitle == <<"Q", "3">>
GoodTitle == <<"A", "u", "d", "i", "t">>
NewTitle == <<"A", "u", "d", "i", "t", "2">>

\* the templates resource: ids of the templates it holds
TemplatesFixture == {"iso27001"}

\* ------------------------------------------------------ score arithmetic
\* The numbers of calculateScores are kept as exact fractions in lowest terms
\* (n / d); 0 / 0 is NaN.
RECURSIVE GCD(_, _)
GCD(a, b) == IF b = 0 THEN a ELSE GCD(b, a % b)

Rat(n, d) == IF d = 0 THEN [n |-> 0, d |-> 0]
             ELSE [n |-> n \div GCD(n, d), d |-> d \div GCD(n, d)]
NaN == Rat(0, 0)
Num(k) == Rat(k, 1)
AddRat(p, q) == Rat(p.n * q.d + q.n * p.d, p.d * q.d)

\* Math.round(x): the integer nearest to x, halves upwards; NaN stays NaN
MathRound_Floor(q) == IF q.d = 0 THEN q ELSE Num(q.n \div q.d)
MathRound(q) == IF q.d = 0 THEN q ELSE Num((2 * q.n + q.d) \div (2 * q.d))

\* Math.round(x * 10) / 10
RoundTenths(q) == Rat(MathRound(Rat(q.n * 10, q.d)).n, 10)

\* a dimension of an assessment: score is <<>> for null, <<k>> for the number k
Dim(score, max_score, weight) ==
    [score |-> score, max_score |-> max_score, weight |-> weight]

Scored(dim) == dim.score # <<>>

\* template.dimensions of the templates resource: the ISO 27001 template has
\* nine dimensions, none of which sets weight or max_score (0 here)
TemplateDimensions ==
    [i \in 1..9 |-> [weight |-> 0, max_score |-> 0]]

\* initializeDimensions(template): weight || 1.0, score null, max_score || 5
initializeDimensions(tdims) ==
    [i \in 1..Len(tdims) |->
        Dim(<<>>, IF tdims[i].max_score = 0 THEN 5 ELSE tdims[i].max_score,
                  IF tdims[i].weight = 0 THEN 1 ELSE tdims[i].weight)]

\* one turn of the loop of calculateScores over assessment.dimensions: the
\* accumulators totalWeightedScore, totalWeight, completedDimensions after dim
accumulateDim_All(acc, dim) ==
    [totalWeightedScore |->
         AddRat(acc.totalWeightedScore,
                Rat((IF Scored(dim) THEN dim.score[1] ELSE 0) * 100 * dim.weight,
                    dim.max_score)),
     totalWeight |-> acc.totalWeight + dim.weight,
     completedDimensions |-> acc.completedDimensions + (IF Scored(dim) THEN 1 ELSE 0)]

accumulateDim(acc, dim) ==
    IF Scored(dim)
    THEN [totalWeightedScore |->
              AddRat(acc.totalWeightedScore,
                     Rat(dim.score[1] * 100 * dim.weight, dim.max_score)),
          totalWeight |-> acc.totalWeight + dim.weight,
          completedDimensions |-> acc.completedDimensions + 1]
    ELSE acc

\* the accumulators after the first k dimensions
RECURSIVE accumulate(_, _)
accumulate(dims, k) ==
    IF k = 0 THEN [totalWeightedScore |-> Num(0), totalWeight |-> 0,
                   completedDimensions |-> 0]
    ELSE CHOOSE acc \in {accumulateDim(before, dims[k]) :
                            before \in {accumulate(dims, k - 1)}} : TRUE

\* what calculateScores computes from the dimensions: the object it returns
\* (overallScore and progress as computed) and the update it persists
\* (Math.round(progress), Math.round(overallScore * 10) / 10)
scoresOf(dims) ==
    LET t == accumulate(dims, Len(dims))
        overallScore == IF t.totalWeight > 0
                        THEN Rat(t.totalWeightedScore.n,
                                 t.totalWeightedScore.d * t.totalWeight)
                        ELSE Num(0)
        progress == Rat(t.completedDimensions * 100, Len(dims))
        dimensionScores == SelectSeq(dims, Scored)
    IN [returned |-> [overall_score |-> overallScore,
                      dimension_scores |-> dimensionScores,
                      progress |-> progress],
        persisted |-> [progress |-> MathRound(progress),
                       overall_score |-> << RoundTenths(overallScore) >>,
                       dimension_scores |-> dimensionScores]]

\* what calculateScores returns when it throws
NoScores == [overall_score |-> NaN, dimension_scores |-> <<>>, progress |-> NaN]

\* an assessment object: hasDimensions is FALSE when the object has no
\* dimensions key; overall_score is <<>> until calculateScores has set it
Assessment(id, title, status, created_by, assigned_to, hasDimensions, dimensions) ==
    [id |-> id, title |-> title, status |-> status,
     created_by |-> created_by, assigned_to |-> assigned_to, stamps |-> Null,
     hasDimensions |-> hasDimensions, dimensions |-> dimensions,
     progress |-> Num(0), overall_score |-> <<>>, dimension_scores |-> <<>>]

\* the scenario of nine dimensions of which three are scored at 50, 80 and
\* 100 percent, all of weight 1
NineDimensions ==
    [i \in 1..9 |-> IF i = 1 THEN Dim(<<5>>, 10, 1)
                    ELSE IF i = 2 THEN Dim(<<8>>, 10, 1)
                    ELSE IF i = 3 THEN Dim(<<10>>, 10, 1)
                    ELSE Dim(<<>>, 10, 1)]

\* the assessments resource as the backend serves it
LoadedAssessments ==
    << Assessment(100, GoodTitle, "in_review", "u-other", {}, TRUE, NineDimensions) >>

\* ids the backend knows although they are not in the loaded list
RemoteIds == {200}

\* what GET /assessments/<id> answers for such an id
RemoteAssessment(id) ==
    Assessment(id, GoodTitle, "approved", "u-other", {"12345"}, FALSE, <<>>)

\* this.assessments.find / findIndex by id (0 when there is none)
findIndex(list, id) ==
    IF \E i \in 1..Len(list) : list[i].id = id
    THEN CHOOSE i \in 1..Len(list) :
            list[i].id = id /\ \A j \in 1..(i - 1) : list[j].id # id
    ELSE 0

\* getAssessment(assessmentId): the cache first, then the list (filling the
\* cache), then the backend (fetchOk; filling the cache). a = Null is null.
getAssessment(c, list, id, fetchOk) ==
    IF Has(c, id) THEN [a |-> c[id], cache |-> c]
    ELSE IF findIndex(list, id) # 0
         THEN [a |-> list[findIndex(list, id)],
               cache |-> (id :> list[findIndex(list, id)]) @@ c]
         ELSE IF fetchOk /\ id \in RemoteIds
              THEN [a |-> RemoteAssessment(id), cache |-> (id :> RemoteAssessment(id)) @@ c]
              ELSE [a |-> Null, cache |-> c]

\* canUpdate(assessment)
canUpdate(a) ==
    /\ hasPermission(permissions, currentRole, <<"write">>, << <<"assessments">> >>)
    /\ \/ a.created_by = storeUser.id
       \/ storeUser.id \in a.assigned_to
       \/ currentRole \in {"customer_admin", "reabel_superadmin"}

\* {...assessment, ...updates}: updates.fields overrides fields by name and
\* updates.stamp, when given, adds the <state>_at / <state>_by pair.
Merge(a, updates) ==
    [f \in DOMAIN a |->
        IF f = "stamps"
        THEN IF Len(updates.stamp) = 1
             THEN (updates.stamp[1].state :> updates.stamp[1].by) @@ a.stamps
             ELSE a.stamps
        ELSE IF f \in DOMAIN updates.fields THEN updates.fields[f] ELSE a[f]]

FieldUpdate(changed) == [fields |-> changed, stamp |-> <<>>]

StatusUpdate(newState, by) ==
    [fields |-> [status |-> newState], stamp |-> << [state |-> newState, by |-> by] >>]

\* updateAssessment(assessmentId, updates) on the state (c, list): what it
\* leaves behind. err = None on success.
updateAssessment(c, list, ac, id, updates, fetchOk, saveOk) ==
    LET g == getAssessment(c, list, id, fetchOk)
        thrown(e) == [err |-> e, list |-> list, cache |-> g.cache, apiCache |-> ac,
                      saved |-> <<>>, emitted |-> <<>>]
    IN IF g.a = Null THEN thrown("Assessment not found")
       ELSE IF ~canUpdate(g.a) THEN thrown("Permission denied")
       ELSE LET updated == Merge(g.a, updates)
                sv == save(mode, ac, "assessments/:id", "PUT", saveOk)
                index == findIndex(list, id)
            IN IF ~sv.ok
               THEN [thrown("Failed to update assessment") EXCEPT !.saved = sv.req]
               ELSE IF assessNull
               THEN [err |-> "TypeError", list |-> list, cache |-> g.cache,
                     apiCache |-> sv.cache, saved |-> sv.req, emitted |-> sv.events]
               ELSE [err |-> None,
                     list |-> IF index # 0 THEN [list EXCEPT ![index] = updated] ELSE list,
                     cache |-> g.cache, apiCache |-> sv.cache, saved |-> sv.req,
                     emitted |-> sv.events \o << Ev("assessment:updated", updated) >>]

calculateScores_Consuming(c, list, ac, id, fetchOk, saveOk) ==
    LET g == getAssessment(c, list, id, fetchOk) IN
    IF g.a = Null \/ ~g.a.hasDimensions
    THEN [err |-> "TypeError", list |-> list, cache |-> g.cache, apiCache |-> ac,
          saved |-> <<>>, emitted |-> <<>>, result |-> NoScores]
    ELSE The({ [err |-> u.err, list |-> u.list,
                cache |-> (id :> [g.a EXCEPT !.dimensions =
                                     [i \in 1..Len(@) |-> [@[i] EXCEPT !.score = <<>>]]])
                          @@ u.cache,
                apiCache |-> u.apiCache, saved |-> u.saved, emitted |-> u.emitted,
                result |-> IF u.err = None THEN sc.returned ELSE NoScores] :
               sc \in {scoresOf(g.a.dimensions)},
               u \in {updateAssessment(g.cache, list, ac, id,
                                       FieldUpdate(scoresOf(g.a.dimensions).persisted),
                                       fetchOk, saveOk)} })

\* calculateScores(assessmentId): it reads the assessment through
\* getAssessment, computes the scores from its dimensions (a TypeError when the
\* assessment is null or has no dimensions), writes progress, overall_score and
\* dimension_scores with updateAssessment and returns the computed values.
calculateScores(c, list, ac, id, fetchOk, saveOk) ==
    LET g == getAssessment(c, list, id, fetchOk) IN
    IF g.a = Null \/ ~g.a.hasDimensions
    THEN [err |-> "TypeError", list |-> list, cache |-> g.cache, apiCache |-> ac,
          saved |-> <<>>, emitted |-> <<>>, result |-> NoScores]
    ELSE The({ [err |-> u.err, list |-> u.list, cache |-> u.cache,
                apiCache |-> u.apiCache, saved |-> u.saved, emitted |-> u.emitted,
                result |-> IF u.err = None THEN sc.returned ELSE NoScores] :
               sc \in {scoresOf(g.a.dimensions)},
               u \in {updateAssessment(g.cache, list, ac, id,
                                       FieldUpdate(scoresOf(g.a.dimensions).persisted),
                                       fetchOk, saveOk)} })

\* one turn of the loop of executePostTransitionActions: the switch on the
\* action's type inside its own try/catch. st carries list, cache, apiCache,
\* saved, emitted and postRun through the loop; sendNotification, autoAssign
\* and generateActionItems only log.
runPostAction(st, type, id, saveOk) ==
    IF type = "calculate_score"
    THEN The({ [st EXCEPT !.postRun = Append(@, type),
                          !.list = r.list, !.cache = r.cache,
                          !.apiCache = r.apiCache,
                          !.saved = @ \o r.saved,
                          !.emitted = @ \o r.emitted] :
               r \in {calculateScores(st.cache, st.list, st.apiCache, id, FALSE,
                                      saveOk)} })
    ELSE [st EXCEPT !.postRun = Append(@, type)]

\* for (const action of transition.post_actions): from the k-th action on
RECURSIVE runPostActions(_, _, _, _, _)
runPostActions(st, actions, k, id, saveOk) ==
    IF k > Len(actions) THEN st
    ELSE The({ runPostActions(next, actions, k + 1, id, saveOk) :
               next \in {runPostAction(st, actions[k], id, saveOk)} })

\* the transition fromState -> toState that executePostTransitionActions
\* finds: workflow.transitions?.[fromState]?.find(t => t.to === toState),
\* <<>> when there is none
findTransition(fromState, toState) ==
    LET workflow == getWorkflow(workflows, "assessment")
        ts == IF workflow # Null /\ workflow.transitions # Null
                 /\ Has(workflow.transitions, fromState)
              THEN workflow.transitions[fromState] ELSE <<>>
        found == {i \in 1..Len(ts) : ts[i].to = toState}
    IN IF found = {} THEN <<>>
       ELSE << ts[CHOOSE i \in found : \A j \in found : i <= j] >>

executePostTransitionActions_FirstOnly(st, id, fromState, toState, saveOk) ==
    The({ IF transition = <<>> THEN st
          ELSE runPostActions(st, SubSeq(transition[1].post_actions, 1, 1), 1, id,
                              saveOk) :
          transition \in {findTransition(fromState, toState)} })

\* executePostTransitionActions(assessment, fromState, toState): the
\* post_actions of the first transition fromState -> toState, in order
executePostTransitionActions(st, id, fromState, toState, saveOk) ==
    The({ IF transition = <<>> THEN st
          ELSE runPostActions(st, transition[1].post_actions, 1, id, saveOk) :
          transition \in {findTransition(fromState, toState)} })

notifyTransition_Silent(evs, newState) == evs

\* eventBus.emit(EVENTS.NOTIFICATION_SHOW, {type: 'success', message:
\* `Assessment moved to ${newState}`}) at the end of transitionState
notifyTransition(evs, newState) ==
    evs \o << Ev("ui:notification-show", [type |-> "success", about |-> newState]) >>

transitionGuard_Open(fromState, toState, roleId) == TRUE

\* the guard of transitionState: configService.canTransition('assessment', ...)
transitionGuard(fromState, toState, roleId) ==
    canTransition(workflows, "assessment", fromState, toState, roleId)

\* transitionState(assessmentId, newState): what it leaves behind. fetchOk is
\* the outcome of the backend read getAssessment may make, saveOk and
\* postSaveOk those of the PUT requests of the transition and of a
\* calculate_score post-action.
transitionState(id, newState, fetchOk, saveOk, postSaveOk) ==
    LET g == getAssessment(cache, assessments, id, fetchOk)
        thrown(e, c) == [err |-> e, list |-> assessments, cache |-> c,
                         apiCache |-> apiCache, saved |-> <<>>, emitted |-> <<>>,
                         postRun |-> <<>>]
    IN IF g.a = Null THEN thrown("TypeError", g.cache)
       ELSE IF ~transitionGuard(g.a.status, newState, currentRole)
       THEN thrown("Cannot transition", g.cache)
       ELSE The({
            IF u.err # None
            THEN [err |-> u.err, list |-> u.list, cache |-> u.cache,
                  apiCache |-> u.apiCache, saved |-> u.saved,
                  emitted |-> u.emitted, postRun |-> <<>>]
            ELSE The({ [err |-> None, list |-> st.list, cache |-> st.cache,
                        apiCache |-> st.apiCache, saved |-> st.saved,
                        emitted |-> notifyTransition(st.emitted, newState),
                        postRun |-> st.postRun] :
                       st \in {executePostTransitionActions(
                                  [list |-> u.list, cache |-> u.cache,
                                   apiCache |-> u.apiCache, saved |-> u.saved,
                                   emitted |-> u.emitted, postRun |-> <<>>],
                                  id, g.a.status, newState, postSaveOk)} }) :
            u \in {updateAssessment(g.cache, assessments, apiCache, id,
                                    StatusUpdate(newState, storeUser.id),
                                    fetchOk, saveOk)} })

\* number of assessments created in one page life
MaxAssessments == 1

\* validateAssessmentData(data): the message of the error it throws, or None
validateAssessmentData(data) ==
    IF Len(data.title) < 3 THEN "Title must be at least 3 characters"
    ELSE IF data.template_id = None THEN "Template is required"
    ELSE None

\* the create-permission check of createAssessment
canCreate_Always(perms, role) == TRUE

canCreate(perms, role) ==
    hasPermission(perms, role, <<"create">>, << <<"assessments">> >>)

\* createAssessment(data): what it leaves behind; saveOk is the outcome of
\* the POST request that api mode makes.
createAssessment(data, saveOk) ==
    LET thrown(e, req) ==
            [err |-> e, list |-> assessments, isNull |-> assessNull,
             nextId |-> nextId, apiCache |-> apiCache, saved |-> req,
             emitted |-> << Ev("ui:notification-show", [type |-> "error", about |-> e]) >>]
        workflow == getWorkflow(workflows, "assessment")
    IN IF validateAssessmentData(data) # None THEN thrown(validateAssessmentData(data), <<>>)
       ELSE IF ~canCreate(permissions, currentRole)
       THEN thrown("Permission denied", <<>>)
       ELSE IF data.template_id \notin templates THEN thrown("Template not found", <<>>)
       ELSE IF workflow = Null THEN thrown("TypeError", <<>>)
       ELSE LET assessment ==
                    Assessment(nextId + 1, data.title, workflow.initialState,
                               storeUser.id, {}, TRUE,
                               initializeDimensions(TemplateDimensions))
                sv == save(mode, apiCache, "assessments", "POST", saveOk)
            IN IF ~sv.ok THEN thrown("Failed to create assessment", sv.req)
               ELSE [err |-> None, list |-> Append(assessments, assessment),
                     isNull |-> FALSE, nextId |-> nextId + 1,
                     apiCache |-> sv.cache, saved |-> sv.req,
                     emitted |-> sv.events \o
                        << Ev("assessment:created", assessment),
                           Ev("ui:notification-show",
                              [type |-> "success", about |-> "created"]) >>]

AssessIds == (1..MaxAssessments) \cup {100} \cup RemoteIds

\* outcomes of the backend read getAssessment makes for an id it does not hold
FetchOutcomes(id) == IF id \in RemoteIds THEN BOOLEAN ELSE {FALSE}

\* outcomes of a write request: local mode makes none and always succeeds
SaveOutcomes == IF mode = "local" THEN {TRUE} ELSE BOOLEAN

\* ---------------------------------------------------------------- actions

\* AssessmentService.initialize() at page start: templates, then the user's
\* assessments (loadUserAssessments swallows its own errors).
AssessInitialize ==
    /\ templates = {} /\ assessNull /\ nextId = 0
    /\ \E okTemplates \in BOOLEAN, okAssessments \in BOOLEAN :
        LET l1 == load(mode, apiCache, "templates", okTemplates)
            role == getCurrentRole(roles, currentRole)
            l2 == IF l1.ok /\ role # Null
                  THEN load(mode, l1.cache, "assessments", okAssessments)
                  ELSE [ok |-> FALSE, cache |-> l1.cache, events |-> <<>>]
        IN /\ call' = [op |-> "assessmentService.initialize", args |-> <<>>]
           /\ ret' = l1.ok
           /\ templates' = IF l1.ok THEN TemplatesFixture ELSE templates
           /\ assessNull' = ~l2.ok
           /\ assessments' = IF l2.ok THEN LoadedAssessments ELSE assessments
           /\ apiCache' = l2.cache
           /\ emitted' = l1.events \o l2.events \o
                (IF l1.ok THEN << Ev("assessment:initialized", "templates") >> ELSE <<>>)
           /\ saved' = <<>> /\ postRun' = <<>>
           /\ UNCHANGED <<extVars, loadVars, cfgVars, roleVars, authVars, storeVars, navVars, cache, nextId>>

CreateInputs ==
    { [title |-> ShortTitle, template_id |-> "iso27001"],
      [title |-> GoodTitle, template_id |-> None],
      [title |-> GoodTitle, template_id |-> "unknown"],
      [title |-> GoodTitle, template_id |-> "iso27001"] }

CreateAssessment ==
    /\ nextId < MaxAssessments
    /\ \E data \in CreateInputs, saveOk \in SaveOutcomes :
        \E r \in {createAssessment(data, saveOk)} :
        /\ call' = [op |-> "createAssessment", args |-> <<data>>]
        /\ ret' = r.err
        /\ assessments' = r.list /\ assessNull' = r.isNull /\ nextId' = r.nextId
        /\ apiCache' = r.apiCache
        /\ emitted' = r.emitted /\ saved' = r.saved /\ postRun' = <<>>
        /\ UNCHANGED <<extVars, loadVars, cfgVars, roleVars, authVars, storeVars, navVars, templates, cache>>

UpdateAssessment ==
    \E id \in AssessIds :
      \E fetchOk \in FetchOutcomes(id), saveOk \in SaveOutcomes :
        \E r \in {updateAssessment(cache, assessments, apiCache, id,
                                  FieldUpdate([title |-> NewTitle]), fetchOk, saveOk)} :
           /\ call' = [op |-> "updateAssessment", args |-> <<id>>]
           /\ ret' = r.err
           /\ assessments' = r.list /\ cache' = r.cache /\ apiCache' = r.apiCache
           /\ emitted' = r.emitted /\ saved' = r.saved /\ postRun' = <<>>
           /\ UNCHANGED <<extVars, loadVars, cfgVars, roleVars, authVars, storeVars, navVars,
                          templates, assessNull, nextId>>

\* target states passed to transitionState ("deleted" is no declared state)
TargetStates == {"active", "in_review", "approved", "deleted"}

TransitionState ==
    \E id \in AssessIds, newState \in TargetStates :
      \E fetchOk \in FetchOutcomes(id), saveOk \in SaveOutcomes, postSaveOk \in SaveOutcomes :
        \E r \in {transitionState(id, newState, fetchOk, saveOk, postSaveOk)} :
        /\ call' = [op |-> "transitionState", args |-> <<id, newState>>]
        /\ ret' = r.err
        /\ assessments' = r.list /\ cache' = r.cache /\ apiCache' = r.apiCache
        /\ emitted' = r.emitted /\ saved' = r.saved /\ postRun' = r.postRun
        /\ UNCHANGED <<extVars, loadVars, cfgVars, roleVars, authVars, storeVars, navVars,
                       templates, assessNull, nextId>>

GetAssessmentCall ==
    \E id \in AssessIds :
      \E fetchOk \in FetchOutcomes(id) :
        LET g == getAssessment(cache, assessments, id, fetchOk) IN
        /\ call' = [op |-> "getAssessment", args |-> <<id>>]
        /\ ret' = g.a
        /\ cache' = g.cache
        /\ emitted' = <<>> /\ saved' = <<>> /\ postRun' = <<>>
        /\ UNCHANGED <<extVars, cfgVars, roleVars, authVars, storeVars, navVars, apiVars,
                       templates, assessNull, assessments, nextId>>

\* the store and client storage as AuthService.login leaves them for role r
LoggedInUser(r) == [id |-> "12345", role |-> r, permissions |-> getRolePermissions(r)]
LoggedInSession == [isAuthenticated |-> TRUE, token |-> "demo-token", expiresAt |-> 1]

\* The page once started in local mode: RoleService.initialize() has loaded the
\* role set and the permission matrix and activated the default role, and the
\* user has logged in. The workflow configuration is the
\* default one or one delivered by the database.
InitAssess ==
    /\ mode = "local"
    /\ workflows \in {DefaultWorkflows, CustomWorkflows} /\ walk = <<>>
    /\ roles = RolesFixture /\ permissions = PermissionsFixture
    /\ currentRole = DefaultRole /\ lsRole = None
    /\ storeRole = updateStoreRole(RolesFixture, PermissionsFixture, DefaultRole,
                                   StoreInitRole).storeRole
    /\ storeUser = LoggedInUser(DefaultRole) /\ storeSession = LoggedInSession
    /\ lsUser = [id |-> "12345", role |-> DefaultRole]
    /\ lsSession = [token |-> "demo-token", expiresAt |-> 1]
    /\ apiCache = {"roles", "permissions"} /\ LoadConstructed
    /\ NavConstructed /\ AssessConstructed /\ ExtConstructed /\ OpConstructed

\* the roles the assessment operations are called under: one that may create
\* and update everything, one that may update its own, one that may only read
AssessRoles == {"customer_admin", "domain_manager", "reviewer"}

SwitchAssessRole == SwitchRoleAmong(AssessRoles)

NextAssess ==
    \/ SwitchAssessRole
    \/ AssessInitialize
    \/ CreateAssessment
    \/ UpdateAssessment
    \/ TransitionState
    \/ GetAssessmentCall

SpecAssess == InitAssess /\ [][NextAssess]_vars

\* the workflow table's statement of a permitted transition of an assessment
TransitionPermitted(fromState, toState, roleId) ==
    \E t \in TableEntries("assessment", fromState) :
        t.to = toState /\ (~t.hasRoles \/ roleId \in t.roles)

NoSuccessNotification(evs) ==
    \A i \in EventsOfType(evs, "ui:notification-show") : evs[i].data.type # "success"

C2_TransitionVisible ==
    (call.op = "transitionState" /\ ret = None) =>
        LET id == call.args[1]
            s == call.args[2]
            a == getAssessment(cache, assessments, id, TRUE).a
            index == findIndex(assessments, id)
        IN /\ index # 0 => /\ assessments[index].status = s
                           /\ Has(assessments[index].stamps, s)
           /\ a # Null
           /\ a.status = s /\ Has(a.stamps, s)
           /\ \A t \in TargetStates :
                 transitionGuard(a.status, t, currentRole)
                     = TransitionPermitted(s, t, currentRole)

\* C4: every assessment's status is a state the assessment workflow declares,
\* and a status only changes along a transition the table permits for the
\* role active at that moment.
C4_StatusFollowsWorkflow ==
    [][ \A i \in 1..Len(assessments') :
          /\ assessments'[i].status \in Range(workflows.assessment.states)
          /\ (i <= Len(assessments) /\ assessments'[i].id = assessments[i].id
                /\ assessments'[i].status # assessments[i].status)
             => TransitionPermitted(assessments[i].status, assessments'[i].status,
                                    currentRole) ]_vars

\* ------------------------------------------ ApiService.load, step by step
\* load(resource) is an async function on the page's single thread: its
\* synchronous part runs when it is called, the physical fetch settles later,
\* and the code after `await request` runs later still.  Other calls of the
\* ApiService (load, save, clearCache) run in between.

MaxLoadCalls == 3                       \* load(resource) calls followed
LoadResources == {"assessments", "permissions"}

\* what a caller can receive: the body of a fetch, saved data, a thrown error
NoResult == [from |-> "none", n |-> 0]
FetchedData(req) == [from |-> "fetch", n |-> req]
FetchError(req) == [from |-> "error", n |-> req]
SavedData == [from |-> "save", n |-> 0]

\* Map.prototype.has / set / delete on this.cache and this.pendingRequests
cacheHas_Never(m, key) == FALSE
cacheHas(m, key) == key \in DOMAIN m
pendingHas_Never(m, key) == FALSE
pendingHas(m, key) == key \in DOMAIN m
mapSet(m, key, v) == [k \in DOMAIN m \cup {key} |-> IF k = key THEN v ELSE m[k]]
mapDelete(m, key) == [k \in DOMAIN m \ {key} |-> m[k]]
pendingDelete_Keep(m, key) == m
pendingDelete(m, key) == mapDelete(m, key)

\* the requests of a resource whose physical fetch has not settled
InFlight(reqs, resource) ==
    {i \in 1..Len(reqs) : reqs[i].resource = resource /\ reqs[i].state = "fetching"}

\* what a settled request promise resolves to or rejects with
Outcome(reqs, i) ==
    IF reqs[i].state = "resolved" THEN FetchedData(i) ELSE FetchError(i)

\* a load(resource) call and what it has received so far; req = 0 when the
\* call was answered from the cache
Caller(resource, via, req, state, result) ==
    [resource |-> resource, via |-> via, req |-> req, state |-> state,
     result |-> result]

\* the synchronous part of load(resource): cache hit, join of the pending
\* request, or a new request (loadLocal / loadRemote throw without a fetch when
\* the resource is not configured) registered in pendingRequests
LoadCall ==
    \E resource \in LoadResources :
        /\ Len(callers) < MaxLoadCalls
        /\ call' = [op |-> "load", args |-> <<resource>>]
        /\ IF cacheHas(cacheData, resource)
           THEN /\ callers' = Append(callers, Caller(resource, "cache", 0, "returned",
                                                     cacheData[resource]))
                /\ ret' = cacheData[resource]
                /\ UNCHANGED <<requests, pendingRequests>>
           ELSE IF pendingHas(pendingRequests, resource)
           THEN /\ callers' = Append(callers, Caller(resource, "pending",
                                         pendingRequests[resource], "waiting", NoResult))
                /\ ret' = NoResult
                /\ UNCHANGED <<requests, pendingRequests>>
           ELSE /\ requests' = Append(requests,
                       [resource |-> resource,
                        state |-> IF Configured(mode, resource) THEN "fetching"
                                                                ELSE "rejected"])
                /\ pendingRequests' = mapSet(pendingRequests, resource, Len(requests) + 1)
                /\ callers' = Append(callers, Caller(resource, "new", Len(requests) + 1,
                                                     "waiting", NoResult))
                /\ ret' = NoResult
        /\ emitted' = <<>> /\ saved' = <<>> /\ postRun' = <<>>
        /\ UNCHANGED <<extVars, cfgVars, roleVars, authVars, storeVars, navVars, assessVars,
                       apiCache, cacheData>>

\* the physical fetch behind a request settles: ApiService.fetch returns
\* {success: true, data} or {success: false, ...} and loadLocal / loadRemote
\* return the data or throw
FetchSettle ==
    \E i \in 1..Len(requests), ok \in BOOLEAN :
        /\ requests[i].state = "fetching"
        /\ requests' = [requests EXCEPT ![i].state = IF ok THEN "resolved" ELSE "rejected"]
        /\ call' = [op |-> "fetchSettle", args |-> <<requests[i].resource>>]
        /\ ret' = NoResult
        /\ emitted' = <<>> /\ saved' = <<>> /\ postRun' = <<>>
        /\ UNCHANGED <<extVars, cfgVars, roleVars, authVars, storeVars, navVars, assessVars,
                       apiCache, cacheData, pendingRequests, callers>>

\* the code after `await request` in the call that created the request:
\* cache.set, pendingRequests.delete and DATA_LOADED, or pendingRequests.delete,
\* DATA_ERROR and the rethrow.  The event carries whether the result was in the
\* cache when the listeners ran.
LoadContinue ==
    \E c \in 1..Len(callers) :
        LET resource == callers[c].resource
            i == callers[c].req
        IN  /\ callers[c].via = "new" /\ callers[c].state = "waiting"
            /\ requests[i].state # "fetching"
            /\ call' = [op |-> "loadContinue", args |-> <<resource>>]
            /\ pendingRequests' = pendingDelete(pendingRequests, resource)
            /\ IF requests[i].state = "resolved"
               THEN /\ cacheData' = mapSet(cacheData, resource, FetchedData(i))
                    /\ apiCache' = apiCache \cup {resource}
                    /\ emitted' = << Ev("data:loaded",
                                        [resource |-> resource,
                                         cached |-> cacheHas(cacheData', resource)]) >>
                    /\ callers' = [callers EXCEPT ![c].state = "returned",
                                                  ![c].result = FetchedData(i)]
               ELSE /\ UNCHANGED <<cacheData, apiCache>>
                    /\ emitted' = << Ev("data:error",
                                        [resource |-> resource,
                                         cached |-> cacheHas(cacheData', resource)]) >>
                    /\ callers' = [callers EXCEPT ![c].state = "threw",
                                                  ![c].result = FetchError(i)]
            /\ ret' = callers'[c].result
            /\ saved' = <<>> /\ postRun' = <<>>
            /\ UNCHANGED <<extVars, cfgVars, roleVars, authVars, storeVars, navVars, assessVars,
                           requests>>

\* a call that was handed the pending promise receives what it settled to
CallerResume ==
    \E c \in 1..Len(callers) :
        LET i == callers[c].req
        IN  /\ callers[c].via = "pending" /\ callers[c].state = "waiting"
            /\ requests[i].state # "fetching"
            /\ call' = [op |-> "callerResume", args |-> <<callers[c].resource>>]
            /\ callers' = [callers EXCEPT
                             ![c].state = IF requests[i].state = "resolved"
                                          THEN "returned" ELSE "threw",
                             ![c].result = Outcome(requests, i)]
            /\ ret' = callers'[c].result
            /\ emitted' = <<>> /\ saved' = <<>> /\ postRun' = <<>>
            /\ UNCHANGED <<extVars, cfgVars, roleVars, authVars, storeVars, navVars, assessVars,
                           apiCache, cacheData, pendingRequests, requests>>

\* the requests created so far for the resources rs
CreatedFor(rs) == {i \in 1..Len(requests) : requests[i].resource \in rs}

\* apiService.save(resource, data, method): local mode writes the data into
\* the cache; api mode drops the cached result when the request succeeded
SaveCall ==
    \E resource \in LoadResources, ok \in BOOLEAN :
        LET r == save(mode, apiCache, resource, "PUT", ok)
        IN  /\ mode = "local" => ok
            /\ call' = [op |-> "save", args |-> <<resource>>]
            /\ apiCache' = r.cache
            /\ cacheData' = IF mode = "local" THEN mapSet(cacheData, resource, SavedData)
                            ELSE IF ok THEN mapDelete(cacheData, resource)
                            ELSE cacheData
            /\ ret' = NoResult
            /\ invalidated' = IF mode = "api" /\ ok
                               THEN invalidated \cup CreatedFor({resource})
                               ELSE invalidated
            /\ emitted' = r.events /\ saved' = r.req /\ postRun' = <<>>
            /\ UNCHANGED <<backendVars, formVars, pubsubVars, otherLateVars, cfgVars, roleVars,
                           authVars, storeVars, navVars, assessVars,
                           pendingRequests, requests, callers>>

\* apiService.clearCache(): this.cache.clear()
ClearCache ==
    /\ call' = [op |-> "clearCache", args |-> <<>>]
    /\ cacheData' = Null /\ apiCache' = {}
    /\ invalidated' = invalidated \cup CreatedFor(LoadResources)
    /\ ret' = NoResult
    /\ emitted' = <<>> /\ saved' = <<>> /\ postRun' = <<>>
    /\ UNCHANGED <<backendVars, formVars, pubsubVars, otherLateVars, cfgVars, roleVars,
                   authVars, storeVars, navVars, assessVars,
                   pendingRequests, requests, callers>>

\* the ApiService after construction, in either data-source mode
InitLoad ==
    /\ mode \in {"local", "api"}
    /\ CfgConstructed /\ RoleConstructed /\ AuthConstructed /\ StoreConstructed
    /\ NavConstructed /\ AssessConstructed /\ ExtConstructed /\ ApiConstructed
    /\ lsRole = None
    /\ call = NoCall /\ ret = NoResult
    /\ emitted = <<>> /\ saved = <<>> /\ postRun = <<>>

NextLoad ==
    \/ LoadCall
    \/ FetchSettle
    \/ LoadContinue
    \/ CallerResume
    \/ SaveCall
    \/ ClearCache

SpecLoad == InitLoad /\ [][NextLoad]_vars

\* every call that was handed a request has, once it finished, received what
\* that request settled to
JoinedCallersAgree(cs, reqs) ==
    \A c \in 1..Len(cs) :
        (cs[c].req # 0 /\ cs[c].state # "waiting") => cs[c].result = Outcome(reqs, cs[c].req)

\* C12: at most one physical fetch per resource is in flight, and a load call
\* issued while the fetch of its resource is in flight starts no fetch and
\* receives the result of that one fetch, as every caller of that fetch does.
C12_OneFetchOneResult ==
    [][ /\ \A r \in LoadResources : Cardinality(InFlight(requests', r)) <= 1
        /\ (call'.op = "load" /\ InFlight(requests, call'.args[1]) # {})
              => /\ requests' = requests
                 /\ callers'[Len(callers')].req \in InFlight(requests, call'.args[1])
        /\ JoinedCallersAgree(callers', requests') ]_vars

\* C13: when a result is cached for the resource, load(resource) returns the
\* cached result, starts no fetch, registers no pending request and emits
\* neither a data-loaded nor a data-error event.
C13_CacheHitNoFetch ==
    [][ (call'.op = "load" /\ call'.args[1] \in DOMAIN cacheData)
        => /\ ret' = cacheData[call'.args[1]]
           /\ callers'[Len(callers')].state = "returned"
           /\ callers'[Len(callers')].result = cacheData[call'.args[1]]
           /\ requests' = requests
           /\ pendingRequests' = pendingRequests
           /\ cacheData' = cacheData
           /\ EventsOfType(emitted', "data:loaded") = {}
           /\ EventsOfType(emitted', "data:error") = {} ]_vars

\* C13 witness: a load was answered with the result an earlier fetch had cached
C13_Witness ==
    /\ call.op = "load" /\ callers # <<>>
    /\ callers[Len(callers)].via = "cache"
    /\ callers[Len(callers)].result.from = "fetch"
    /\ Len(requests) = 1

\* the requests of a resource that are settled and whose creating call has run
\* its code after the await
Finished(cs, reqs, resource) ==
    {i \in 1..Len(reqs) :
        /\ reqs[i].resource = resource /\ reqs[i].state # "fetching"
        /\ \E c \in 1..Len(cs) : cs[c].req = i /\ cs[c].via = "new"
                                 /\ cs[c].state # "waiting"}

\* C14: when the fetch behind load(resource) fails, the creating call and every
\* call that joined it receive the failure, one data-error event and no other
\* is emitted, the cache is left as it was and the pending entry is removed, so
\* that a later load of the uncached resource starts a new request; when the
\* fetch succeeds the result is in the cache when the one data-loaded event is
\* emitted.
C14_SettleBookkeeping ==
    [][ /\ (call'.op = "loadContinue" /\ ret'.from = "error")
           => /\ emitted' = << Ev("data:error", [resource |-> call'.args[1],
                                                 cached |-> call'.args[1] \in DOMAIN cacheData]) >>
              /\ cacheData' = cacheData
              /\ call'.args[1] \notin DOMAIN pendingRequests'
              /\ \E c \in 1..Len(callers) :
                    /\ callers[c].state = "waiting" /\ callers'[c].state = "threw"
                    /\ callers'[c].result = FetchError(callers[c].req)
        /\ (call'.op = "callerResume" /\ ret'.from = "error") => emitted' = <<>>
        /\ \A c \in 1..Len(callers) :
              (callers[c].state = "waiting" /\ callers'[c].state # "waiting"
                  /\ requests[callers[c].req].state = "rejected")
              => /\ callers'[c].state = "threw"
                 /\ callers'[c].result = FetchError(callers[c].req)
        /\ (call'.op = "load" /\ call'.args[1] \notin DOMAIN cacheData
              /\ Finished(callers, requests, call'.args[1]) # {}
              /\ InFlight(requests, call'.args[1]) = {}
              /\ \A i \in 1..Len(requests) :
                    requests[i].resource = call'.args[1]
                        => i \in Finished(callers, requests, call'.args[1]))
           => /\ Len(requests') = Len(requests) + 1
              /\ requests'[Len(requests')].resource = call'.args[1]
        /\ (call'.op = "loadContinue" /\ ret'.from = "fetch")
           => /\ emitted' = << Ev("data:loaded", [resource |-> call'.args[1],
                                                  cached |-> TRUE]) >>
              /\ cacheData'[call'.args[1]] = ret'
              /\ call'.args[1] \notin DOMAIN pendingRequests' ]_vars

\* C14 witness: the first fetch of a resource failed, the call that created it
\* and a call that had joined it both received the failure, and a later load of
\* the resource has started a second fetch.
C14_Witness ==
    /\ call.op = "load" /\ Len(requests) = 2 /\ Len(callers) = 3
    /\ requests[1].resource = requests[2].resource
    /\ requests[1].state = "rejected" /\ requests[2].state = "fetching"
    /\ callers[1].state = "threw" /\ callers[2].via = "pending"
    /\ callers[2].state = "threw" /\ callers[3].via = "new"

\* ------------------------------------- scores and post-transition actions
\* The assessment operations on a list that was loaded with scored dimensions,
\* under a workflow whose transitions declare post_actions.

\* A workflow configuration of the database whose transitions out of in_review
\* and active recompute the scores before their other post_actions
PostActionWorkflows ==
    [assessment |->
        [states |-> <<"draft", "active", "in_review", "approved", "published", "archived">>,
         initialState |-> "draft",
         transitions |->
            [draft |-> << [to |-> "active", hasRoles |-> FALSE, roles |-> {},
                           post_actions |-> <<"notify", "calculate_score">>] >>,
             active |-> << [to |-> "in_review", hasRoles |-> TRUE,
                            roles |-> {"contributor", "customer_admin"},
                            post_actions |-> <<"assign", "create_action_items">>] >>,
             in_review |-> << Transition("approved", {"reviewer"}),
                              [to |-> "active", hasRoles |-> TRUE,
                               roles |-> {"reviewer", "customer_admin"},
                               post_actions |-> <<"calculate_score", "notify",
                                                  "create_action_items">>] >>,
             approved |-> << [to |-> "in_review", hasRoles |-> TRUE,
                              roles |-> {"customer_admin"},
                              post_actions |-> <<"calculate_score", "assign">>] >>]]]

\* dimensions as the assessments resource may hold them
MaxDims == 2
DimChoices == {Dim(<<>>, 5, 1), Dim(<<1>>, 3, 1), Dim(<<3>>, 3, 2), Dim(<<4>>, 5, 1)}
DimensionInputs ==
    {NineDimensions, initializeDimensions(TemplateDimensions)}
        \cup UNION {[1..k -> DimChoices] : k \in 0..MaxDims}

\* the loaded list: one assessment in review, with dimensions or, as a row of
\* the backend's assessments table, without
ScoreLists ==
    { << Assessment(100, GoodTitle, "in_review", "u-other", {}, TRUE, d) >> :
          d \in DimensionInputs }
    \cup { << Assessment(100, GoodTitle, "in_review", "u-other", {}, FALSE, <<>>) >> }

\* new dimension scores written through updateAssessment
ScoreUpdates == { << Dim(<<4>>, 5, 1) >>, << Dim(<<1>>, 3, 1), Dim(<<>>, 5, 1) >> }

CalculateScoresCall ==
    \E id \in AssessIds :
      \E fetchOk \in FetchOutcomes(id), saveOk \in SaveOutcomes :
        \E r \in {calculateScores(cache, assessments, apiCache, id, fetchOk, saveOk)} :
        /\ call' = [op |-> "calculateScores", args |-> <<id>>]
        /\ ret' = [err |-> r.err, value |-> r.result]
        /\ assessments' = r.list /\ cache' = r.cache /\ apiCache' = r.apiCache
        /\ emitted' = r.emitted /\ saved' = r.saved /\ postRun' = <<>>
        /\ UNCHANGED <<extVars, loadVars, cfgVars, roleVars, authVars, storeVars, navVars,
                       templates, assessNull, nextId>>

UpdateDimensions ==
    \E id \in AssessIds, dims \in ScoreUpdates :
      \E fetchOk \in FetchOutcomes(id), saveOk \in SaveOutcomes :
        \E r \in {updateAssessment(cache, assessments, apiCache, id,
                                  FieldUpdate([hasDimensions |-> TRUE,
                                               dimensions |-> dims]),
                                  fetchOk, saveOk)} :
           /\ call' = [op |-> "updateAssessment", args |-> <<id>>]
           /\ ret' = r.err
           /\ assessments' = r.list /\ cache' = r.cache /\ apiCache' = r.apiCache
           /\ emitted' = r.emitted /\ saved' = r.saved /\ postRun' = <<>>
           /\ UNCHANGED <<extVars, loadVars, cfgVars, roleVars, authVars, storeVars, navVars,
                          templates, assessNull, nextId>>

\* The page once started in local mode and logged in as in InitAssess, after
\* AssessmentService.initialize() has loaded the templates and the list.
InitScore ==
    /\ mode = "local"
    /\ workflows = PostActionWorkflows /\ walk = <<>>
    /\ roles = RolesFixture /\ permissions = PermissionsFixture
    /\ currentRole = DefaultRole /\ lsRole = None
    /\ storeRole = updateStoreRole(RolesFixture, PermissionsFixture, DefaultRole,
                                   StoreInitRole).storeRole
    /\ storeUser = LoggedInUser(DefaultRole) /\ storeSession = LoggedInSession
    /\ lsUser = [id |-> "12345", role |-> DefaultRole]
    /\ lsSession = [token |-> "demo-token", expiresAt |-> 1]
    /\ apiCache = {"roles", "permissions", "templates", "assessments"}
    /\ LoadConstructed /\ NavConstructed
    /\ templates = TemplatesFixture /\ assessNull = FALSE
    /\ assessments \in ScoreLists
    /\ cache = Null /\ nextId = 0
    /\ ExtConstructed /\ OpConstructed

NextScore ==
    \/ SwitchAssessRole
    \/ CalculateScoresCall
    \/ UpdateDimensions
    \/ TransitionState
    \/ GetAssessmentCall

SpecScore == InitScore /\ [][NextScore]_vars

\* the post_actions the workflow table declares for fromState -> toState
DeclaredPostActions(fromState, toState) ==
    LET ts == TableEntries("assessment", fromState)
        first == CHOOSE t \in ts : t.to = toState
    IN IF \E t \in ts : t.to = toState THEN first.post_actions ELSE <<>>

\* a calculate_score post-action was attempted and threw: nothing but the
\* transition's own PUT request was made
PostActionFailed(run, reqs) ==
    "calculate_score" \in Range(run) /\ Len(reqs) = 1

\* C15: a successful transitionState attempts the declared post-actions of
\* its transition, each once and in declaration order; when one of them fails
\* the later ones still run, the new state stays in the list and in the PUT
\* request, and transitionState returns success.
C15_PostActionsRunInOrder ==
    [][ (call'.op = "transitionState" /\ Has(cache', call'.args[1])
            /\ (ret' = None \/ postRun' # <<>>))
        => /\ ret' = None
           /\ postRun' = DeclaredPostActions(cache'[call'.args[1]].status, call'.args[2])
           /\ PostActionFailed(postRun', saved')
              => /\ saved'[1] = SaveReq("assessments/:id", "PUT", TRUE)
                 /\ \A i \in 1..Len(assessments') :
                       assessments'[i].id = call'.args[1]
                           => /\ assessments'[i].status = call'.args[2]
                              /\ Has(assessments'[i].stamps, call'.args[2]) ]_vars

\* C15 witness: the score recomputation, first of three declared post-actions,
\* failed on an assessment of the list that has no dimensions; the two later
\* actions ran and the assessment is in the new state.
C15_Witness ==
    /\ call.op = "transitionState" /\ ret = None
    /\ postRun = <<"calculate_score", "notify", "create_action_items">>
    /\ PostActionFailed(postRun, saved)
    /\ assessments[1].id = call.args[1] /\ assessments[1].status = "active"

\* C16: a successful transitionState emits the success notification of the
\* transition once, as its last event: after the PUT request and the
\* assessment:updated event that store the new state and after every declared
\* post-action has run; a transitionState that throws emits no notification.
C16_NotificationLast ==
    [][ call'.op = "transitionState"
        => /\ ret' = None
              => /\ emitted' # <<>>
                 /\ emitted'[Len(emitted')] =
                        Ev("ui:notification-show",
                           [type |-> "success", about |-> call'.args[2]])
                 /\ EventsOfType(emitted', "ui:notification-show") = {Len(emitted')}
                 /\ saved' # <<>>
                 /\ saved'[1] = SaveReq("assessments/:id", "PUT", TRUE)
                 /\ \E i \in 1..(Len(emitted') - 1) :
                       /\ emitted'[i].type = "assessment:updated"
                       /\ emitted'[i].data.status = call'.args[2]
                 /\ postRun' = DeclaredPostActions(cache'[call'.args[1]].status,
                                                   call'.args[2])
           /\ ret' # None
              => EventsOfType(emitted', "ui:notification-show") = {} ]_vars

\* C16 witness: a transition with post-actions succeeded and its notification
\* followed the events of the update and of the score recomputation
C16_Witness ==
    /\ call.op = "transitionState" /\ ret = None
    /\ Len(postRun) > 1 /\ Len(saved) = 2 /\ Len(emitted) = 5
    /\ emitted[5].type = "ui:notification-show"

\* ------------------------------------------- walks of the default workflow
\* An assessment that starts in the workflow's initial state and is moved only
\* by transitions that canTransition permits for some role.

MaxWalk == 7                            \* states on a walk

WalkTransition ==
    \E toState \in WfStates, roleId \in RoleIds \cup {UnknownRole} :
        LET fromState == walk[Len(walk)] IN
        /\ Len(walk) < MaxWalk
        /\ call' = [op |-> "canTransition",
                    args |-> <<"assessment", fromState, toState, roleId>>]
        /\ ret' = canTransition(workflows, "assessment", fromState, toState, roleId)
        /\ walk' = IF ret' THEN Append(walk, toState) ELSE walk
        /\ emitted' = <<>> /\ saved' = <<>> /\ postRun' = <<>>
        /\ UNCHANGED <<extVars, mode, workflows, roleVars, authVars, storeVars, navVars,
                       assessVars, apiVars>>

\* ConfigService fell back to getDefaultWorkflows(); the assessment is in the
\* initial state
InitWalk ==
    /\ mode \in {"local", "api"} /\ lsRole = None
    /\ workflows = DefaultWorkflows
    /\ walk = << workflows.assessment.initialState >>
    /\ RoleConstructed /\ AuthConstructed /\ StoreConstructed /\ NavConstructed
    /\ AssessConstructed /\ ExtConstructed /\ ApiConstructed /\ OpConstructed

NextWalk == WalkTransition

SpecWalk == InitWalk /\ [][NextWalk]_vars

\* positions i < j < k of the walk w that hold a, b, c
InOrder(w, a, b, c) ==
    \E i \in 1..Len(w), j \in 1..Len(w), k \in 1..Len(w) :
        i < j /\ j < k /\ w[i] = a /\ w[j] = b /\ w[k] = c

\* C17: under the default assessment workflow customer_admin may move
\* draft -> active, no role may move draft -> published, every walk of
\* permitted transitions from draft that reaches published has passed active,
\* in_review and approved in that order, nothing leads into draft and nothing
\* leads out of published or archived.
C17_DefaultWorkflowShape ==
    /\ \A i \in 1..Len(walk) :
          /\ i > 1 => walk[i] # "draft"
          /\ i < Len(walk) => walk[i] \notin {"published", "archived"}
          /\ (i > 1 /\ walk[i] = "published") => walk[i - 1] # "draft"
    /\ (walk # <<>> /\ walk[Len(walk)] = "published")
          => /\ walk[1] = "draft"
             /\ InOrder(walk, "active", "in_review", "approved")
    /\ call.op = "canTransition"
       => /\ call.args = <<"assessment", "draft", "active", "customer_admin">> => ret = TRUE
          /\ (call.args[2] = "draft" /\ call.args[3] = "published") => ret = FALSE
          /\ call.args[3] = "draft" => ret = FALSE
          /\ call.args[2] \in {"published", "archived"} => ret = FALSE

\* C17 witness: a walk that went back from in_review to active before it
\* reached published, its last step made by customer_admin
C17_Witness ==
    /\ walk = <<"draft", "active", "in_review", "active", "in_review", "approved",
                "published">>
    /\ call.op = "canTransition" /\ call.args[4] = "customer_admin" /\ ret = TRUE

\* the positions of the dimensions with a non-null score
ScoredIdx(dims) == {i \in 1..Len(dims) : dims[i].score # <<>>}

\* the sum of percentage * weight and the sum of weight over the positions I
RECURSIVE SumWeighted(_, _)
SumWeighted(dims, I) ==
    IF I = {} THEN Num(0)
    ELSE LET i == CHOOSE j \in I : TRUE
         IN AddRat(Rat(dims[i].score[1] * 100 * dims[i].weight, dims[i].max_score),
                   SumWeighted(dims, I \ {i}))

RECURSIVE SumWeight(_, _)
SumWeight(dims, I) ==
    IF I = {} THEN 0
    ELSE LET i == CHOOSE j \in I : TRUE IN dims[i].weight + SumWeight(dims, I \ {i})

ExpectedOverall(dims) ==
    IF ScoredIdx(dims) = {} THEN Num(0)
    ELSE Rat(SumWeighted(dims, ScoredIdx(dims)).n,
             SumWeighted(dims, ScoredIdx(dims)).d * SumWeight(dims, ScoredIdx(dims)))

\* p is a number with one decimal that lies within 0.05 of q
IsRoundedToTenth(p, q) ==
    /\ p.d # 0 /\ 10 % p.d = 0
    /\ 20 * (p.n * q.d - q.n * p.d) <= p.d * q.d
    /\ 20 * (q.n * p.d - p.n * q.d) <= p.d * q.d

\* C18: the overall score calculateScores computes is the sum of
\* percentage * weight over the sum of weight, both taken over the scored
\* dimensions only, and 0 when none is scored; the assessment keeps it rounded
\* to one decimal, which is 76.7 for three of nine dimensions scored at 50, 80
\* and 100 percent with weight 1.
C18_OverallScore ==
    (call.op = "calculateScores" /\ ret.err = None)
    => /\ ret.value.overall_score = ExpectedOverall(cache[call.args[1]].dimensions)
       /\ \A i \in 1..Len(assessments) :
             assessments[i].id = call.args[1]
             => /\ Len(assessments[i].overall_score) = 1
                /\ IsRoundedToTenth(assessments[i].overall_score[1],
                                    ExpectedOverall(assessments[i].dimensions))
                /\ ScoredIdx(assessments[i].dimensions) = {}
                      => assessments[i].overall_score[1] = Num(0)
                /\ assessments[i].dimensions = NineDimensions
                      => assessments[i].overall_score[1] = Rat(767, 10)

\* C18 witness: the scores of the nine-dimension scenario were computed
C18_Witness ==
    /\ call.op = "calculateScores" /\ ret.err = None
    /\ assessments[1].id = call.args[1]
    /\ assessments[1].dimensions = NineDimensions
    /\ assessments[1].overall_score = << Rat(767, 10) >>
    /\ ret.value.overall_score = Rat(230, 3)

\* p is the integer nearest to scored / total * 100 and lies in 0..100
IsRoundedProgress(p, scored, total) ==
    /\ p.d = 1 /\ p.n \in 0..100
    /\ 2 * (p.n * total - scored * 100) <= total
    /\ 2 * (scored * 100 - p.n * total) <= total

\* C19: the progress calculateScores produces is the integer
\* round(scored / total * 100) and lies in 0..100; with no dimension scored
\* progress and overall_score are 0; the progress and the overall score it
\* returns are the values it has stored on the assessment.
C19_ProgressReturnedAsStored ==
    (call.op = "calculateScores" /\ ret.err = None)
    => \A i \in 1..Len(assessments) :
          assessments[i].id = call.args[1]
          => /\ IsRoundedProgress(assessments[i].progress,
                                  Cardinality(ScoredIdx(assessments[i].dimensions)),
                                  Len(assessments[i].dimensions))
             /\ (assessments[i].dimensions # <<>>
                    /\ ScoredIdx(assessments[i].dimensions) = {})
                => /\ assessments[i].progress = Num(0)
                   /\ assessments[i].overall_score = << Num(0) >>
             /\ ret.value.progress = assessments[i].progress
             /\ << ret.value.overall_score >> = assessments[i].overall_score

\* the progress and overall score the list holds for the assessment id
StoredScores(list, id) ==
    {<<list[i].progress, list[i].overall_score>> : i \in {j \in 1..Len(list) : list[j].id = id}}

\* C20: a second calculateScores call on the same assessment, made directly
\* after a first one, returns the same overall_score and progress and leaves
\* the same overall_score and progress on the assessment.
C20_CalculateScoresIdempotent ==
    [][ (/\ call.op = "calculateScores" /\ call'.op = "calculateScores"
         /\ call'.args = call.args
         /\ ret.err = None)
        => /\ ret'.err = None
           /\ ret'.value.overall_score = ret.value.overall_score
           /\ ret'.value.progress = ret.value.progress
           /\ StoredScores(assessments', call.args[1])
                 = StoredScores(assessments, call.args[1]) ]_vars

\* C20 witness: scores were computed for an assessment whose two dimensions
\* are both scored and whose overall score needs rounding
C20_Witness ==
    /\ call.op = "calculateScores" /\ ret.err = None
    /\ assessments[1].id = call.args[1]
    /\ assessments[1].dimensions = << Dim(<<1>>, 3, 1), Dim(<<4>>, 5, 1) >>
    /\ ret.value.overall_score = Rat(170, 3)
    /\ assessments[1].overall_score = << Rat(567, 10) >>
    /\ assessments[1].progress = Num(100)

\* ------------------------------------------------- creation of assessments

\* C21: every assessment createAssessment adds to the list was created while
\* the active role held create on assessments, is appended with the workflow's
\* initial state and progress 0; without the permission createAssessment fails
\* with nothing saved, the list unchanged and no assessment-created event.
C21_CreateNeedsPermission ==
    [][ call'.op = "createAssessment" =>
          LET held == hasPermission(permissions, currentRole, <<"create">>,
                                    << <<"assessments">> >>)
          IN /\ assessments' # assessments =>
                  /\ held
                  /\ Len(assessments') = Len(assessments) + 1
                  /\ SubSeq(assessments', 1, Len(assessments)) = assessments
                  /\ assessments'[Len(assessments')].status =
                        getWorkflow(workflows, "assessment").initialState
                  /\ assessments'[Len(assessments')].progress = Num(0)
             /\ ~held =>
                  /\ ret' # None
                  /\ saved' = <<>>
                  /\ assessments' = assessments /\ assessNull' = assessNull
                  /\ nextId' = nextId /\ apiCache' = apiCache /\ cache' = cache
                  /\ EventsOfType(emitted', "assessment:created") = {} ]_vars

\* a role without the permission was refused an otherwise valid request
C21_Witness ==
    /\ call.op = "createAssessment"
    /\ call.args[1].title = GoodTitle /\ call.args[1].template_id = "iso27001"
    /\ templates # {}
    /\ ret = "Permission denied"
    /\ currentRole = "reviewer"

\* ------------------------------------------------------------------------
\* Backend API (server.js): the middleware chain of one request. A request
\* passes the rate limiter mounted on /api/, then authenticate, then (on
\* POST /api/v1/assessments) authorize, then the route handler; each of them
\* either answers or calls next().
\* ------------------------------------------------------------------------

\* requests the limiter lets through per window (max: 100 in server.js,
\* scaled down)
RateLimitMax == 2
\* rows table assessments can hold
MaxRows == 3

Tenants == [A |-> [is_active |-> TRUE], B |-> [is_active |-> TRUE],
            C |-> [is_active |-> FALSE]]

\* table users (with the role_id each row references)
Users ==
    [u1 |-> [tenant_id |-> "A", role_id |-> "admin",  is_active |-> TRUE],
     u2 |-> [tenant_id |-> "B", role_id |-> "viewer", is_active |-> TRUE],
     u3 |-> [tenant_id |-> "A", role_id |-> "admin",  is_active |-> FALSE],
     u4 |-> [tenant_id |-> "B", role_id |-> "admin",  is_active |-> TRUE],
     u5 |-> [tenant_id |-> "C", role_id |-> "admin",  is_active |-> TRUE]]

\* role_permissions joined with permissions: the permission keys of a role
RolePermissionKeys ==
    [admin  |-> {"read:assessments", "write:assessments"},
     viewer |-> {"read:assessments"}]

\* a JWT: whether its signature verifies under CONFIG.jwtSecret, whether its
\* exp lies in the past, and the payload jwt.sign put into it
Token(sigOk, expired, userId, tenantId) ==
    [sigOk |-> sigOk, expired |-> expired, userId |-> userId, tenantId |-> tenantId]

\* tokens the server has issued (also to users since deactivated, deleted or
\* moved to another tenant), an expired one and one it has not signed
Tokens ==
    { Token(TRUE, FALSE, "u1", "A"), Token(TRUE, FALSE, "u1", "B"),
      Token(TRUE, FALSE, "u2", "B"), Token(TRUE, FALSE, "u3", "A"),
      Token(TRUE, FALSE, "u4", "B"), Token(TRUE, FALSE, "u5", "C"),
      Token(TRUE, FALSE, "gone", "A"),
      Token(TRUE, TRUE, "u1", "A"),
      Token(FALSE, FALSE, "u1", "A") }

BearerPrefix == <<"B", "e", "a", "r", "e", "r", " ">>

\* values of the Authorization header: <<>> when the header is absent
AuthHeaders ==
    { <<>>, <<"B", "a", "s", "i", "c", " ", "x">>,
      <<"b", "e", "a", "r", "e", "r", " ">> \o << Token(TRUE, FALSE, "u1", "A") >> }
    \cup { BearerPrefix \o <<t>> : t \in Tokens }

\* String.prototype.startsWith
startsWith(str, prefix) ==
    Len(str) >= Len(prefix) /\ SubSeq(str, 1, Len(prefix)) = prefix

\* authHeader.substring(7)
substring7(str) == SubSeq(str, 8, Len(str))

\* jwt.verify(token, secret): the payload, or the name of the error thrown
jwtVerify_IgnoreExpiry(token) ==
    IF Len(token) # 1 \/ ~token[1].sigOk
    THEN [error |-> "JsonWebTokenError", decoded |-> Null]
    ELSE [error |-> None, decoded |-> token[1]]

jwtVerify(token) ==
    IF Len(token) # 1 \/ ~token[1].sigOk
    THEN [error |-> "JsonWebTokenError", decoded |-> Null]
    ELSE IF token[1].expired
    THEN [error |-> "TokenExpiredError", decoded |-> Null]
    ELSE [error |-> None, decoded |-> token[1]]

\* the rows of the user query of authenticate for a user id
userRows(userId) ==
    IF Has(Users, userId) /\ Users[userId].is_active
       /\ Tenants[Users[userId].tenant_id].is_active
    THEN << [user_id |-> userId, tenant_id |-> Users[userId].tenant_id,
             role_id |-> Users[userId].role_id] >>
    ELSE <<>>

Response(status, body) == [status |-> status, body |-> body]

\* authenticate: the response it sends, or next() with the user row it
\* attached to the request; dbFail names the query of the request that fails
authenticate_TrustPayload(authHeader, dbFail) ==
    IF authHeader = <<>> \/ ~startsWith(authHeader, BearerPrefix)
    THEN [next |-> FALSE, res |-> Response(401, "No authentication token provided"),
          user |-> Null]
    ELSE The({ IF v.error = "JsonWebTokenError"
               THEN [next |-> FALSE, res |-> Response(401, "Invalid token"), user |-> Null]
               ELSE IF v.error = "TokenExpiredError"
               THEN [next |-> FALSE, res |-> Response(401, "Token expired"), user |-> Null]
               ELSE IF dbFail = "authenticate"
               THEN [next |-> FALSE, res |-> Response(500, "Authentication failed"),
                     user |-> Null]
               ELSE IF userRows(v.decoded.userId) = <<>>
               THEN [next |-> FALSE, res |-> Response(401, "Invalid or expired token"),
                     user |-> Null]
               ELSE [next |-> TRUE, res |-> Response(0, None),
                     user |-> [userRows(v.decoded.userId)[1]
                                 EXCEPT !.tenant_id = v.decoded.tenantId]] :
               v \in {jwtVerify(substring7(authHeader))} })

authenticate(authHeader, dbFail) ==
    IF authHeader = <<>> \/ ~startsWith(authHeader, BearerPrefix)
    THEN [next |-> FALSE, res |-> Response(401, "No authentication token provided"),
          user |-> Null]
    ELSE The({ IF v.error = "JsonWebTokenError"
               THEN [next |-> FALSE, res |-> Response(401, "Invalid token"), user |-> Null]
               ELSE IF v.error = "TokenExpiredError"
               THEN [next |-> FALSE, res |-> Response(401, "Token expired"), user |-> Null]
               ELSE IF dbFail = "authenticate"
               THEN [next |-> FALSE, res |-> Response(500, "Authentication failed"),
                     user |-> Null]
               ELSE IF userRows(v.decoded.userId) = <<>>
               THEN [next |-> FALSE, res |-> Response(401, "Invalid or expired token"),
                     user |-> Null]
               ELSE [next |-> TRUE, res |-> Response(0, None),
                     user |-> userRows(v.decoded.userId)[1]] :
               v \in {jwtVerify(substring7(authHeader))} })

\* authorize(requiredPermission): the response it sends, or next()
authorize_Open(user, requiredPermission, dbFail) ==
    [next |-> TRUE, res |-> Response(0, None)]

authorize(user, requiredPermission, dbFail) ==
    IF dbFail = "authorize"
    THEN [next |-> FALSE, res |-> Response(500, "Authorization check failed")]
    ELSE IF requiredPermission \notin RolePermissionKeys[user.role_id]
    THEN [next |-> FALSE, res |-> Response(403, "Insufficient permissions")]
    ELSE [next |-> TRUE, res |-> Response(0, None)]

\* a row of table assessments
Row(id, tenant_id, name, template_id, created_by) ==
    [assessment_id |-> id, tenant_id |-> tenant_id, assessment_name |-> name,
     template_id |-> template_id, created_by |-> created_by, status |-> "draft"]

\* the columns GET /api/v1/assessments selects
Selected(row) ==
    [assessment_id |-> row.assessment_id, assessment_name |-> row.assessment_name,
     template_id |-> row.template_id, status |-> row.status]

\* WHERE a.tenant_id = $1 ORDER BY a.created_at DESC
RECURSIVE selectAssessments(_, _, _)
selectAssessments(db, tenantId, k) ==
    IF k = 0 THEN <<>>
    ELSE (IF db[k].tenant_id = tenantId THEN << Selected(db[k]) >> ELSE <<>>)
         \o selectAssessments(db, tenantId, k - 1)

\* the handler of GET /api/v1/assessments
getAssessments(req, user, db) ==
    IF req.dbFail = "handler" THEN [res |-> Response(500, "Failed to fetch assessments"), db |-> db]
    ELSE [res |-> Response(200, selectAssessments(db, user.tenant_id, Len(db))), db |-> db]

\* the handler of POST /api/v1/assessments
postAssessments(req, user, db) ==
    IF req.body.name = None \/ req.body.templateId = None
    THEN [res |-> Response(400, "Name and template ID are required"), db |-> db]
    ELSE IF req.dbFail = "handler"
    THEN [res |-> Response(500, "Failed to create assessment"), db |-> db]
    ELSE The({ [res |-> Response(201, << Selected(row) >>), db |-> Append(db, row)] :
               row \in {Row(Len(db) + 1, user.tenant_id, req.body.name,
                            req.body.templateId, user.user_id)} })

\* the handlers of the other protected endpoints
otherHandler(req, user, db) ==
    IF req.endpoint = "GET /api/v1/auth/me"
    THEN [res |-> Response(200, << user >>), db |-> db]
    ELSE IF req.endpoint = "GET /api/v1/questions" /\ req.query.templateId = None
    THEN [res |-> Response(400, "Template ID is required"), db |-> db]
    ELSE IF req.dbFail = "handler" THEN [res |-> Response(500, "Failed to fetch"), db |-> db]
    ELSE [res |-> Response(200, <<>>), db |-> db]

routeHandler(req, user, db) ==
    IF req.endpoint = "GET /api/v1/assessments" THEN getAssessments(req, user, db)
    ELSE IF req.endpoint = "POST /api/v1/assessments" THEN postAssessments(req, user, db)
    ELSE otherHandler(req, user, db)

\* what the limiter of express-rate-limit does with a request: it counts it
\* and answers 429 once more than max were counted in the window
limiter(h) ==
    IF h + 1 > RateLimitMax
    THEN [next |-> FALSE, hits |-> RateLimitMax + 1, res |-> Response(429, "Too many requests")]
    ELSE [next |-> TRUE, hits |-> h + 1, res |-> Response(0, None)]

Answer(res, stages, h, db) == [res |-> res, ran |-> stages, hits |-> h, db |-> db]

\* one request through the chain app.use(express.json) .. limiter ..
\* authenticate [.. authorize] .. handler
handleRequest(req, h, db) ==
    IF ~req.bodyOk
    THEN Answer(Response(500, "Internal server error"), << "errorHandler" >>, h, db)
    ELSE The({
        IF ~l.next THEN Answer(l.res, << "limiter" >>, l.hits, db)
        ELSE The({
            IF ~a.next THEN Answer(a.res, << "limiter", "authenticate" >>, l.hits, db)
            ELSE IF req.endpoint = "POST /api/v1/assessments"
            THEN The({
                 IF ~z.next
                 THEN Answer(z.res, << "limiter", "authenticate", "authorize" >>, l.hits, db)
                 ELSE The({ Answer(r.res, << "limiter", "authenticate", "authorize",
                                           "handler" >>, l.hits, r.db) :
                            r \in {routeHandler(req, a.user, db)} }) :
                 z \in {authorize(a.user, "write:assessments", req.dbFail)} })
            ELSE The({ Answer(r.res, << "limiter", "authenticate", "handler" >>,
                              l.hits, r.db) :
                       r \in {routeHandler(req, a.user, db)} }) :
            a \in {authenticate(req.authHeader, req.dbFail)} }) :
        l \in {limiter(h)} })

\* ---------------------------------------------------------------- actions

ProtectedGets ==
    {"GET /api/v1/auth/me", "GET /api/v1/templates", "GET /api/v1/questions",
     "GET /api/v1/assessments"}

NoBody == [name |-> None, templateId |-> None, tenantId |-> None]
NoQuery == [templateId |-> None, tenantId |-> None]

Request(endpoint, authHeader, bodyOk, body, query, dbFail) ==
    [endpoint |-> endpoint, authHeader |-> authHeader, bodyOk |-> bodyOk,
     body |-> body, query |-> query, dbFail |-> dbFail]

BodyChoices ==
    { [name |-> None, templateId |-> "t1", tenantId |-> None],
      [name |-> "Audit", templateId |-> None, tenantId |-> None],
      [name |-> "Audit", templateId |-> "t1", tenantId |-> None],
      [name |-> "Audit", templateId |-> "t1", tenantId |-> "A"],
      [name |-> "Audit", templateId |-> "t1", tenantId |-> "B"] }

FullBody == [name |-> "Audit", templateId |-> "t1", tenantId |-> None]

\* the requests a client sends: any header, any body fields and query
\* parameters, among them a tenant id of its choice; a request body that is
\* not JSON; and the database failing at one of the queries of the request
Requests ==
    { Request("GET /api/v1/auth/me", h, TRUE, NoBody, NoQuery, f) :
        h \in AuthHeaders, f \in {"none", "authenticate"} }
    \cup
    { Request("GET /api/v1/templates", h, TRUE, NoBody, NoQuery, f) :
        h \in AuthHeaders, f \in {"none", "handler"} }
    \cup
    { Request("GET /api/v1/questions", h, TRUE, NoBody,
              [templateId |-> t, tenantId |-> None], "none") :
        h \in AuthHeaders, t \in {None, "t1"} }
    \cup
    { Request("GET /api/v1/assessments", h, TRUE, NoBody,
              [templateId |-> None, tenantId |-> q], f) :
        h \in AuthHeaders, q \in {None, "A", "B"}, f \in {"none", "handler"} }
    \cup
    { Request("POST /api/v1/assessments", h, TRUE, b, NoQuery, "none") :
        h \in AuthHeaders, b \in BodyChoices }
    \cup
    { Request("POST /api/v1/assessments", h, TRUE, FullBody, NoQuery, f) :
        h \in AuthHeaders, f \in {"authenticate", "authorize", "handler"} }
    \cup
    { Request("POST /api/v1/assessments", h, FALSE, NoBody, NoQuery, "none") :
        h \in AuthHeaders }

\* a client sends a request and the server answers it
HandleRequest ==
    \E req \in Requests :
        /\ (req.endpoint = "POST /api/v1/assessments" /\ req.body.name # None
            /\ req.body.templateId # None) => Len(dbAssessments) < MaxRows
        /\ \E r \in {handleRequest(req, hits, dbAssessments)} :
            /\ call' = [op |-> req.endpoint, args |-> <<req>>]
            /\ ret' = r.res
            /\ ran' = r.ran
            /\ hits' = r.hits
            /\ dbAssessments' = r.db
        /\ emitted' = <<>> /\ saved' = <<>> /\ postRun' = <<>>
        /\ UNCHANGED <<frontVars, lateVars, formVars, pubsubVars>>

\* the limiter's window ends
WindowReset ==
    /\ hits > 0
    /\ hits' = 0
    /\ call' = [op |-> "windowReset", args |-> <<>>]
    /\ ret' = Response(0, None) /\ ran' = <<>>
    /\ emitted' = <<>> /\ saved' = <<>> /\ postRun' = <<>>
    /\ UNCHANGED <<frontVars, lateVars, formVars, pubsubVars, dbAssessments>>

\* the server is up; each tenant has an assessment
InitBackend ==
    /\ mode = "api" /\ lsRole = None
    /\ CfgConstructed /\ RoleConstructed /\ AuthConstructed /\ StoreConstructed
    /\ NavConstructed
    /\ templates = {} /\ assessNull = TRUE /\ assessments = <<>>
    /\ cache = Null /\ nextId = 0
    /\ ApiConstructed
    /\ hits = 0 /\ ran = <<>> /\ FormUnmounted /\ PubSubConstructed
    /\ LateConstructed
    /\ dbAssessments = << Row(1, "A", "Audit", "t1", "u1"), Row(2, "B", "Risk", "t1", "u4") >>
    /\ call = NoCall /\ ret = Response(0, None)
    /\ emitted = <<>> /\ saved = <<>> /\ postRun = <<>>

NextBackend == HandleRequest \/ WindowReset

SpecBackend == InitBackend /\ [][NextBackend]_vars

ProtectedEndpoints == ProtectedGets \cup {"POST /api/v1/assessments"}

\* the Authorization header is absent, is not a Bearer token, or carries a
\* token that is not validly signed, is expired, or names no active user of an
\* active tenant
CredentialsBad(h) ==
    \/ h = <<>>
    \/ SubSeq(h, 1, 7) # BearerPrefix
    \/ Len(h) # 8
    \/ ~h[8].sigOk
    \/ h[8].expired
    \/ h[8].userId \notin DOMAIN Users
    \/ ~Users[h[8].userId].is_active
    \/ ~Tenants[Users[h[8].userId].tenant_id].is_active

\* the user record of the token's user
RecordOf(h) == Users[h[8].userId]

LacksWrite(h) ==
    ~CredentialsBad(h) /\ "write:assessments" \notin RolePermissionKeys[RecordOf(h).role_id]

\* the token verifies, so that authenticate goes on to look the user up
TokenVerifies(h) ==
    /\ h # <<>> /\ SubSeq(h, 1, 7) = BearerPrefix /\ Len(h) = 8
    /\ h[8].sigOk /\ ~h[8].expired

\* C22 as stated: with bad credentials every protected endpoint answers 401
\* and its handler does not run; POST /api/v1/assessments by a user whose role
\* lacks write:assessments answers 403 and inserts nothing; authorize runs only
\* after authenticate has succeeded.
C22_AlwaysAnswers401Or403 ==
    [][ call'.op \in ProtectedEndpoints =>
          LET h == call'.args[1].authHeader IN
          /\ CredentialsBad(h) =>
                ret'.status = 401 /\ "handler" \notin Range(ran')
          /\ (call'.op = "POST /api/v1/assessments" /\ LacksWrite(h)) =>
                ret'.status = 403 /\ dbAssessments' = dbAssessments
          /\ "authorize" \in Range(ran') => ~CredentialsBad(h) ]_vars

\* C22, amended: with bad credentials the handler never runs, nothing is
\* inserted and authorize does not run; the answer is 401 whenever the request
\* reaches authenticate (the body parser has not failed and the rate limiter
\* has not answered 429) and the user lookup does not fail. POST by a user
\* whose role lacks write:assessments inserts nothing and does not run the
\* handler; the answer is 403 whenever the request reaches authorize and the
\* permission query does not fail. authorize runs only directly after an
\* authenticate that succeeded.
C22_AuthBeforeHandler ==
    [][ call'.op \in ProtectedEndpoints =>
          LET h == call'.args[1].authHeader
              f == call'.args[1].dbFail
          IN
          /\ CredentialsBad(h) =>
                /\ "handler" \notin Range(ran') /\ "authorize" \notin Range(ran')
                /\ dbAssessments' = dbAssessments
                /\ ret'.status \in {401, 429, 500}
                /\ ("authenticate" \in Range(ran') /\ ~(TokenVerifies(h) /\ f = "authenticate"))
                      => ret'.status = 401
          /\ (call'.op = "POST /api/v1/assessments" /\ LacksWrite(h)) =>
                /\ "handler" \notin Range(ran')
                /\ dbAssessments' = dbAssessments
                /\ ret'.status \in {403, 429, 500}
                /\ ("authorize" \in Range(ran') /\ f # "authorize") => ret'.status = 403
                /\ ("authenticate" \in Range(ran') /\ f \notin {"authenticate", "authorize"})
                      => "authorize" \in Range(ran')
          /\ "authorize" \in Range(ran') =>
                /\ ~CredentialsBad(h)
                /\ SubSeq(ran', 1, 3) = << "limiter", "authenticate", "authorize" >> ]_vars

\* an expired token was answered 401 by authenticate on the create endpoint
C22_Witness ==
    /\ call.op = "POST /api/v1/assessments"
    /\ call.args[1].authHeader = BearerPrefix \o << Token(TRUE, TRUE, "u1", "A") >>
    /\ call.args[1].body = FullBody
    /\ ret.status = 401
    /\ ran = << "limiter", "authenticate" >>

\* the ids of the rows of a tenant
IdsOfTenant(db, tenantId) ==
    {db[i].assessment_id : i \in {j \in 1..Len(db) : db[j].tenant_id = tenantId}}

\* C23: GET /api/v1/assessments returns exactly the assessments of the tenant
\* in the authenticated user's database record, and POST /api/v1/assessments
\* adds one assessment of that tenant and touches nothing else, whatever
\* tenant id the query, the body or the token payload carries.
C23_TenantIsolation ==
    [][ call'.op \in ProtectedEndpoints =>
          LET req == call'.args[1]
              h == req.authHeader
          IN
          /\ (call'.op = "GET /api/v1/assessments" /\ ret'.status = 200) =>
                /\ ~CredentialsBad(h)
                /\ {ret'.body[i].assessment_id : i \in 1..Len(ret'.body)}
                      = IdsOfTenant(dbAssessments, RecordOf(h).tenant_id)
                /\ dbAssessments' = dbAssessments
          /\ dbAssessments' # dbAssessments =>
                /\ call'.op = "POST /api/v1/assessments" /\ ret'.status = 201
                /\ ~CredentialsBad(h)
                /\ Len(dbAssessments') = Len(dbAssessments) + 1
                /\ SubSeq(dbAssessments', 1, Len(dbAssessments)) = dbAssessments
                /\ dbAssessments'[Len(dbAssessments')].tenant_id = RecordOf(h).tenant_id
                /\ dbAssessments'[Len(dbAssessments')].created_by = h[8].userId ]_vars

\* a user of tenant A whose token payload names tenant B and whose query
\* asks for tenant B has read the list, and it holds an assessment
C23_Witness ==
    /\ call.op = "GET /api/v1/assessments" /\ ret.status = 200
    /\ call.args[1].authHeader = BearerPrefix \o << Token(TRUE, FALSE, "u1", "B") >>
    /\ call.args[1].query.tenantId = "B"
    /\ Len(ret.body) > 0
    /\ Len(dbAssessments) = MaxRows

\* ------------------------------------------------------------------------
\* AuthService.restoreSession. An item of client storage is held as the value
\* its JSON text parses to (the objects login stores hold strings and numbers
\* only); Unreadable stands for a text that JSON.parse rejects.
\* ------------------------------------------------------------------------

Unreadable == [unreadable |-> TRUE]

\* loadFromStorage(key): null for a missing item and for one that does not
\* parse (the exception is caught)
loadFromStorage(item) == IF item = Null \/ item = Unreadable THEN Null ELSE item

\* session.expiresAt && Date.now() < session.expiresAt
sessionValid_Always(session, now) == TRUE

sessionValid(session, now) == session.expiresAt # 0 /\ now < session.expiresAt

\* restoreSession() at instant now
restoreSession(now) ==
    The({ IF user # Null /\ session # Null /\ sessionValid(session, now)
          THEN [ret |-> TRUE,
                storeUser |-> [id |-> user.id, role |-> user.role,
                               permissions |-> getRolePermissions(user.role)],
                storeSession |-> [isAuthenticated |-> TRUE, token |-> session.token,
                                  expiresAt |-> session.expiresAt],
                emitted |-> << Ev("state:updated", user.role) >>]
          ELSE [ret |-> FALSE, storeUser |-> storeUser, storeSession |-> storeSession,
                emitted |-> <<>>] :
          user \in {loadFromStorage(lsUser)}, session \in {loadFromStorage(lsSession)} })

\* instants at which restoreSession is called; a login at instant 0 expires at 1
MaxNow == 2

RestoreSession ==
    \E now \in 0..MaxNow :
        \E r \in {restoreSession(now)} :
        /\ call' = [op |-> "restoreSession", args |-> <<now>>]
        /\ ret' = r.ret
        /\ storeUser' = r.storeUser /\ storeSession' = r.storeSession
        /\ emitted' = r.emitted /\ saved' = <<>> /\ postRun' = <<>>
        /\ UNCHANGED <<extVars, cfgVars, roleVars, authVars, storeRole, navVars,
                       assessVars, apiVars>>

\* the page is loaded again: the store is constructed anew, client storage stays
Reload ==
    /\ call' = [op |-> "reload", args |-> <<>>]
    /\ ret' = None
    /\ storeUser' = StoreInitUser /\ storeSession' = StoreInitSession
    /\ storeRole' = StoreInitRole
    /\ emitted' = <<>> /\ saved' = <<>> /\ postRun' = <<>>
    /\ UNCHANGED <<extVars, cfgVars, roleVars, authVars, navVars, assessVars, apiVars>>

\* what an earlier page life can have left in client storage
StoredUsers ==
    {Null, Unreadable, [id |-> "777", role |-> "observer"],
     [id |-> "778", role |-> "ghost"]}
StoredSessions ==
    {Null, Unreadable, [token |-> "old-token", expiresAt |-> 1],
     [token |-> "old-token", expiresAt |-> 2], [token |-> "old-token", expiresAt |-> 0]}

InitSession ==
    /\ mode = "local" /\ lsRole = None
    /\ lsUser \in StoredUsers /\ lsSession \in StoredSessions
    /\ CfgConstructed /\ RoleConstructed /\ StoreConstructed
    /\ NavConstructed /\ AssessConstructed /\ ExtConstructed /\ ApiConstructed /\ OpConstructed

NextSession == Login \/ RestoreSession \/ Reload

SpecSession == InitSession /\ [][NextSession]_vars

\* both items are found in client storage and the stored expiry lies after now
StoredSessionLive(user, session, now) ==
    /\ user \notin {Null, Unreadable} /\ session \notin {Null, Unreadable}
    /\ session.expiresAt > now

\* C24: restoreSession returns true and marks the store session authenticated
\* iff a user and a session are found in client storage and the stored expiry
\* lies in the future, and then the store holds the stored user (with the
\* permissions of its role) and the stored token and expiry; otherwise it
\* returns false and leaves the store unchanged. The store a login leaves is
\* the store a restoreSession builds from what that login persisted.
C24_RestoreSession ==
    [][ /\ call'.op = "restoreSession" =>
            IF StoredSessionLive(lsUser, lsSession, call'.args[1])
            THEN /\ ret' = TRUE
                 /\ storeSession' = [isAuthenticated |-> TRUE, token |-> lsSession.token,
                                     expiresAt |-> lsSession.expiresAt]
                 /\ storeUser' = [id |-> lsUser.id, role |-> lsUser.role,
                                  permissions |-> getRolePermissions(lsUser.role)]
            ELSE /\ ret' = FALSE
                 /\ storeUser' = storeUser /\ storeSession' = storeSession
                 /\ storeRole' = storeRole /\ emitted' = <<>>
        /\ call'.op = "login" =>
            /\ StoredSessionLive(lsUser', lsSession', 0)
            /\ storeSession' = [isAuthenticated |-> TRUE, token |-> lsSession'.token,
                                expiresAt |-> lsSession'.expiresAt]
            /\ storeUser' = [id |-> lsUser'.id, role |-> lsUser'.role,
                             permissions |-> getRolePermissions(lsUser'.role)] ]_vars

\* after a login and a reload, restoreSession has restored the login's session
C24_Witness ==
    /\ call.op = "restoreSession" /\ ret = TRUE
    /\ lsSession.token = "demo-token"
    /\ storeSession = [isAuthenticated |-> TRUE, token |-> "demo-token", expiresAt |-> 1]
    /\ storeUser.id = "12345"

\* ------------------------------------------------- failed backend requests

\* C25: in api mode, when the PUT request of switchRole fails, switchRole
\* returns false and the active role, client storage, the store and the
\* sidebar are as before the call, and no role-changed event is emitted.
C25_FailedSwitchChangesNothing ==
    [][ (call'.op = "switchRole" /\ mode = "api" /\ saved' # <<>> /\ ~saved'[1].ok) =>
          /\ ret' = FALSE
          /\ currentRole' = currentRole
          /\ lsRole' = lsRole /\ lsUser' = lsUser /\ lsSession' = lsSession
          /\ storeRole' = storeRole /\ storeUser' = storeUser
          /\ storeSession' = storeSession
          /\ sidebar' = sidebar
          /\ NoRoleChanged(emitted') ]_vars

\* the backend refused the switch to a known role other than the active one
C25_Witness ==
    /\ call.op = "switchRole" /\ mode = "api"
    /\ BackendRejected
    /\ Has(roles, call.args[1]) /\ call.args[1] # currentRole
    /\ ret = FALSE

\* ------------------------------------------------------------------------
\* AssessmentService.deleteAssessment in api mode, with a permission matrix
\* that grants delete on assessments to the customer admin.
\* ------------------------------------------------------------------------

\* apiService.delete(resource, id): it returns the response, also a failed one
apiDelete(m, cached, resource, ok) ==
    IF m = "local"
    THEN [ok |-> TRUE, cache |-> cached,
          req |-> << SaveReq(resource, "DELETE", TRUE) >>,
          events |-> << Ev("data:deleted", resource) >>]
    ELSE [ok |-> ok, cache |-> IF ok THEN cached \ {resource} ELSE cached,
          req |-> << SaveReq(resource, "DELETE", ok) >>,
          events |-> IF ok THEN << Ev("data:deleted", resource) >> ELSE <<>>]

\* this.assessments.filter(a => a.id !== assessmentId)
withoutId(list, id) ==
    LET Keep(a) == a.id # id IN SelectSeq(list, Keep)

\* deleteAssessment(assessmentId): what it leaves behind; fetchOk is the
\* outcome of the backend read of getAssessment, deleteOk of the DELETE request
deleteAssessment(id, fetchOk, deleteOk) ==
    IF ~hasPermission(permissions, currentRole, <<"delete">>, << <<"assessments">> >>)
    THEN [err |-> "Permission denied", list |-> assessments, cache |-> cache,
          apiCache |-> apiCache, saved |-> <<>>, emitted |-> <<>>]
    ELSE The({
         IF assessNull
         THEN [err |-> "TypeError", list |-> assessments, cache |-> g.cache,
               apiCache |-> d.cache, saved |-> d.req, emitted |-> d.events]
         ELSE [err |-> IF g.a = Null THEN "TypeError" ELSE None,
               list |-> withoutId(assessments, id),
               cache |-> [k \in DOMAIN g.cache \ {id} |-> g.cache[k]],
               apiCache |-> d.cache, saved |-> d.req,
               emitted |-> d.events
                    \o << Ev("data:deleted", "assessment") >>
                    \o (IF g.a = Null THEN <<>>
                        ELSE << Ev("ui:notification-show",
                                   [type |-> "success", about |-> "deleted"]) >>)] :
         g \in {getAssessment(cache, assessments, id, fetchOk)},
         d \in {apiDelete(mode, apiCache, "assessments", deleteOk)} })

DeleteAssessment ==
    \E id \in AssessIds, deleteOk \in SaveOutcomes :
      \E fetchOk \in FetchOutcomes(id) :
        \E r \in {deleteAssessment(id, fetchOk, deleteOk)} :
        /\ call' = [op |-> "deleteAssessment", args |-> <<id>>]
        /\ ret' = r.err
        /\ assessments' = r.list /\ cache' = r.cache /\ apiCache' = r.apiCache
        /\ emitted' = r.emitted /\ saved' = r.saved /\ postRun' = <<>>
        /\ UNCHANGED <<extVars, loadVars, cfgVars, roleVars, authVars, storeVars, navVars,
                       templates, assessNull, nextId>>

DeletePermissions ==
    [PermissionsFixture EXCEPT !.customer_admin = @ \cup {P("delete", "assessments")}]

\* the page once started in api mode against a backend that serves roles,
\* permissions, templates and the user's assessments
InitDelete ==
    /\ mode = "api"
    /\ workflows = DefaultWorkflows /\ walk = <<>>
    /\ roles = RolesFixture /\ permissions = DeletePermissions
    /\ currentRole = DefaultRole /\ lsRole = None
    /\ storeRole = updateStoreRole(RolesFixture, DeletePermissions, DefaultRole,
                                   StoreInitRole).storeRole
    /\ storeUser = LoggedInUser(DefaultRole) /\ storeSession = LoggedInSession
    /\ lsUser = [id |-> "12345", role |-> DefaultRole]
    /\ lsSession = [token |-> "demo-token", expiresAt |-> 1]
    /\ apiCache = {"roles", "permissions", "templates", "assessments"}
    /\ LoadConstructed /\ NavConstructed
    /\ templates = TemplatesFixture /\ assessNull = FALSE
    /\ assessments = LoadedAssessments
    /\ cache = Null /\ nextId = 0
    /\ ExtConstructed /\ OpConstructed

NextDelete ==
    \/ SwitchAssessRole
    \/ CreateAssessment
    \/ GetAssessmentCall
    \/ DeleteAssessment

SpecDelete == InitDelete /\ [][NextDelete]_vars

\* C26: in api mode, when the DELETE request of deleteAssessment fails, the
\* assessment list is as before the call, the assessment is not dropped from
\* the cache, and neither a data-deleted event nor a success notification is
\* emitted.
C26_FailedDeleteChangesNothing ==
    [][ (call'.op = "deleteAssessment" /\ mode = "api" /\ saved' # <<>> /\ ~saved'[1].ok) =>
          /\ assessments' = assessments
          /\ \A id \in DOMAIN cache : id \in DOMAIN cache'
          /\ EventsOfType(emitted', "data:deleted") = {}
          /\ NoSuccessNotification(emitted') ]_vars

\* ------------------------------------------------------------------------
\* FormBuilder (components/Modal.js): field validation and conditional
\* fields. A form value is a record [t, v]: t is its JavaScript type and v
\* its content (characters of a string, items of an array).
\* ------------------------------------------------------------------------

Undefined  == [t |-> "undefined", v |-> <<>>]
Str(s)     == [t |-> "string", v |-> s]
Number(n)  == [t |-> "number", v |-> n]
Bool(b)    == [t |-> "boolean", v |-> b]
Arr(items) == [t |-> "array", v |-> items]

\* !!x
truthy(x) ==
    CASE x.t = "undefined" -> FALSE
      [] x.t = "string"    -> x.v # <<>>
      [] x.t = "number"    -> x.v # 0
      [] x.t = "boolean"   -> x.v
      [] x.t = "array"     -> TRUE

\* x === y, where an array in the form values is never the object of the schema
strictEq(x, y) == x.t = y.t /\ x.t # "array" /\ x.v = y.v

Digits == <<"0", "1", "2", "3", "4", "5", "6", "7", "8", "9">>
DigitOf(c) == CHOOSE d \in 0..9 : Digits[d + 1] = c

RECURSIVE joinItems(_)
\* Array.prototype.join(',') of an array of strings
joinItems(items) ==
    IF items = <<>> THEN <<>>
    ELSE IF Len(items) = 1 THEN items[1]
    ELSE items[1] \o <<",">> \o joinItems(Tail(items))

\* String(x)
stringOf(x) ==
    CASE x.t = "undefined" -> <<"u", "n", "d", "e", "f", "i", "n", "e", "d">>
      [] x.t = "string"    -> x.v
      [] x.t = "number"    -> << Digits[x.v + 1] >>
      [] x.t = "boolean"   -> IF x.v THEN <<"t", "r", "u", "e">>
                              ELSE <<"f", "a", "l", "s", "e">>
      [] x.t = "array"     -> joinItems(x.v)

RECURSIVE decimal(_)
decimal(cs) == IF cs = <<>> THEN 0 ELSE 10 * decimal(SubSeq(cs, 1, Len(cs) - 1)) + DigitOf(cs[Len(cs)])

\* Number(x) of a defined value: <<n>>, or <<>> for NaN
ToNumber(x) ==
    CASE x.t = "number"  -> << x.v >>
      [] x.t = "boolean" -> << IF x.v THEN 1 ELSE 0 >>
      [] OTHER           ->
           IF \A i \in 1..Len(stringOf(x)) : stringOf(x)[i] \in Range(Digits)
           THEN << decimal(stringOf(x)) >> ELSE <<>>

\* x == y
looseEq(x, y) ==
    IF x.t = "undefined" \/ y.t = "undefined" THEN x.t = y.t
    ELSE IF x.t = "array" /\ y.t = "array" THEN FALSE
    ELSE IF x.t \in {"string", "array"} /\ y.t \in {"string", "array"}
         THEN stringOf(x) = stringOf(y)
    ELSE ToNumber(x) # <<>> /\ ToNumber(x) = ToNumber(y)

\* value.length, <<>> when the value has none
lengthOf(x) == IF x.t \in {"string", "array"} THEN << Len(x.v) >> ELSE <<>>

\* new RegExp(pattern).test(value) for the patterns of the schemas
regExpTest(pattern, x) ==
    CASE pattern = "^a" -> stringOf(x) # <<>> /\ stringOf(x)[1] = "a"
      [] pattern = "1$" -> stringOf(x) # <<>> /\ stringOf(x)[Len(stringOf(x))] = "1"

\* field.validator(value, values): <<message>>, or <<>> when it returns
\* nothing or ''
validatorResult(validator, x) ==
    CASE validator = "noOne" ->
           IF "1" \in Range(stringOf(x)) THEN << "must not hold 1" >> ELSE <<>>
      [] validator = "blank"  -> <<>>

NoError == Null
Message(rule, label, n, custom) ==
    [rule |-> rule, label |-> label, n |-> n, custom |-> custom]

\* the conditions of the five rules, each as its `if` reads it
requiredFails(field, value) ==
    field.required /\ (~truthy(value) \/ strictEq(value, Str(<<>>)))
minLengthFails(field, value) ==
    /\ field.minLength # 0 /\ truthy(value)
    /\ lengthOf(value) # <<>> /\ lengthOf(value)[1] < field.minLength
maxLengthFails(field, value) ==
    /\ field.maxLength # 0 /\ truthy(value)
    /\ lengthOf(value) # <<>> /\ lengthOf(value)[1] > field.maxLength
patternFails(field, value) ==
    field.pattern # "" /\ truthy(value) /\ ~regExpTest(field.pattern, value)
validatorFails(field, value) ==
    /\ field.validator # "" /\ truthy(value)
    /\ validatorResult(field.validator, value) # <<>>

requiredMessage(field)  == Message("required", field.label, 0, "")
minLengthMessage(field) == Message("minLength", field.label, field.minLength, "")
maxLengthMessage(field) == Message("maxLength", field.label, field.maxLength, "")
patternMessage(field) ==
    IF field.patternMessage # "" THEN Message("pattern", "", 0, field.patternMessage)
    ELSE Message("pattern", field.label, 0, "")
validatorMessage(field, value) ==
    Message("validator", "", 0, validatorResult(field.validator, value)[1])

\* the rules tried from the last to the first
getFieldError_LastRule(field, value) ==
    IF validatorFails(field, value) THEN validatorMessage(field, value)
    ELSE IF patternFails(field, value) THEN patternMessage(field)
    ELSE IF maxLengthFails(field, value) THEN maxLengthMessage(field)
    ELSE IF minLengthFails(field, value) THEN minLengthMessage(field)
    ELSE IF requiredFails(field, value) THEN requiredMessage(field)
    ELSE NoError

\* getFieldError(field, value)
getFieldError(field, value) ==
    IF requiredFails(field, value) THEN requiredMessage(field)
    ELSE IF minLengthFails(field, value) THEN minLengthMessage(field)
    ELSE IF maxLengthFails(field, value) THEN maxLengthMessage(field)
    ELSE IF patternFails(field, value) THEN patternMessage(field)
    ELSE IF validatorFails(field, value) THEN validatorMessage(field, value)
    ELSE NoError

\* this.state.values[name]
valueOf(vals, name) == IF Has(vals, name) THEN vals[name] ELSE Undefined

NoCondition == Null

\* a condition that is evaluated as its negation
evaluateCondition_Negated(condition, vals) ==
    LET fieldValue == valueOf(vals, condition.field)
    IN CASE condition.operator \in {"===", "=="} -> ~looseEq(fieldValue, condition.value)
         [] condition.operator \in {"!==", "!="} -> looseEq(fieldValue, condition.value)
         [] condition.operator = "includes" ->
              ~(/\ fieldValue.t = "array"
                /\ condition.value.t = "string"
                /\ condition.value.v \in Range(fieldValue.v))
         [] condition.operator = "empty" ->
              ~(~truthy(fieldValue) \/ strictEq(fieldValue, Str(<<>>)))
         [] condition.operator = "notEmpty" ->
              ~(truthy(fieldValue) /\ ~strictEq(fieldValue, Str(<<>>)))
         [] OTHER -> TRUE

\* evaluateCondition(condition) on this.state.values
evaluateCondition(condition, vals) ==
    LET fieldValue == valueOf(vals, condition.field)
    IN CASE condition.operator \in {"===", "=="} -> looseEq(fieldValue, condition.value)
         [] condition.operator \in {"!==", "!="} -> ~looseEq(fieldValue, condition.value)
         [] condition.operator = "includes" ->
              /\ fieldValue.t = "array"
              /\ condition.value.t = "string"
              /\ condition.value.v \in Range(fieldValue.v)
         [] condition.operator = "empty" ->
              ~truthy(fieldValue) \/ strictEq(fieldValue, Str(<<>>))
         [] condition.operator = "notEmpty" ->
              truthy(fieldValue) /\ ~strictEq(fieldValue, Str(<<>>))
         [] OTHER -> TRUE

\* renderField(field): '' for a hidden field, else the form group
Hidden == [rendered |-> FALSE, name |-> "", showError |-> FALSE]
renderField(field, vals, errs, tch) ==
    IF field.condition # NoCondition /\ ~evaluateCondition(field.condition, vals)
    THEN Hidden
    ELSE [rendered |-> TRUE, name |-> field.name,
          showError |-> /\ field.name \in tch
                        /\ Has(errs, field.name) /\ errs[field.name] # NoError]

Field(name, required, minLength, maxLength, pattern, message, validator, condition) ==
    [name |-> name, label |-> name, required |-> required,
     minLength |-> minLength, maxLength |-> maxLength,
     pattern |-> pattern, patternMessage |-> message,
     validator |-> validator, condition |-> condition]

PlainField(name) == Field(name, FALSE, 0, 0, "", "", "", NoCondition)

\* schemas with one field that carries validation rules
RuleSchemas ==
    { << Field("f", required, minLength, maxLength, pat[1], pat[2], validator, NoCondition) >> :
        required \in BOOLEAN, minLength \in {0, 3}, maxLength \in {0, 1},
        pat \in { <<"", "">>, <<"^a", "">>, <<"1$", "bad format">> },
        validator \in {"", "noOne", "blank"} }

Operators == {"===", "==", "!==", "!=", "includes", "empty", "notEmpty", "between"}
ConditionValues == { Str(<<"a">>), Str(<<>>), Number(1) }

\* schemas whose field f is shown under a condition on field g
ConditionSchemas ==
    { << Field("f", FALSE, 0, 0, "", "", "",
               [field |-> "g", operator |-> operator, value |-> value]),
         PlainField("g") >> :
        operator \in Operators, value \in ConditionValues }

FieldValues ==
    { Undefined, Str(<<>>), Str(<<"a">>), Str(<<"a", "1">>), Str(<<"1", "a", "1">>),
      Number(0), Number(1), Bool(TRUE), Bool(FALSE), Arr(<<>>), Arr(<< <<"a">> >>) }

\* what handleChange may be called with: the fields of the schema with every
\* value, and a name the schema does not hold
ChangeInputs ==
    { <<fields[i].name, value>> : i \in 1..Len(fields), value \in FieldValues }
      \cup { << "x", Str(<<"a">>) >> }

\* getField(fieldName): <<field>>, or <<>> when the schema has none
getField(fieldName) ==
    LET Named(f) == f.name = fieldName IN SelectSeq(fields, Named)

\* handleChange(fieldName, value), with validateField
HandleChange ==
    \E input \in ChangeInputs :
      \E fieldName \in {input[1]}, value \in {input[2]} :
        /\ values' = (fieldName :> value) @@ values
        /\ touched' = touched \cup {fieldName}
        /\ errors' = IF getField(fieldName) = <<>> THEN errors
                     ELSE (fieldName :> getFieldError(getField(fieldName)[1], value)) @@ errors
        /\ call' = [op |-> "handleChange", args |-> <<fieldName, value>>]
        /\ ret' = None /\ emitted' = <<>> /\ saved' = <<>> /\ postRun' = <<>>
        /\ UNCHANGED <<frontVars, lateVars, backendVars, pubsubVars, fields>>

\* validate()
Validate ==
    LET failing == {i \in 1..Len(fields) :
                      getFieldError(fields[i], valueOf(values, fields[i].name)) # NoError}
    IN  /\ errors' = [n \in {fields[i].name : i \in failing} |->
                        getFieldError(getField(n)[1], valueOf(values, n))]
        /\ touched' = {fields[i].name : i \in 1..Len(fields)}
        /\ call' = [op |-> "validate", args |-> <<>>]
        /\ ret' = (failing = {}) /\ emitted' = <<>> /\ saved' = <<>> /\ postRun' = <<>>
        /\ UNCHANGED <<frontVars, lateVars, backendVars, pubsubVars, fields, values>>

RenderField ==
    \E i \in 1..Len(fields) :
        /\ call' = [op |-> "renderField", args |-> <<i>>]
        /\ ret' = renderField(fields[i], values, errors, touched)
        /\ emitted' = <<>> /\ saved' = <<>> /\ postRun' = <<>>
        /\ UNCHANGED <<frontVars, lateVars, backendVars, pubsubVars, formVars>>

\* a form built from a schema, without initial values
InitForm ==
    /\ mode = "local" /\ lsRole = None
    /\ CfgConstructed /\ RoleConstructed /\ AuthConstructed /\ StoreConstructed
    /\ NavConstructed /\ AssessConstructed /\ ApiConstructed /\ BackendStopped
    /\ PubSubConstructed /\ LateConstructed
    /\ fields \in RuleSchemas \cup ConditionSchemas
    /\ values = Null /\ errors = Null /\ touched = {}
    /\ OpConstructed

NextForm == HandleChange \/ Validate \/ RenderField

SpecForm == InitForm /\ [][NextForm]_vars

RuleOrder == <<"required", "minLength", "maxLength", "pattern", "validator">>

ruleFails(rule, field, value) ==
    CASE rule = "required"  -> requiredFails(field, value)
      [] rule = "minLength" -> minLengthFails(field, value)
      [] rule = "maxLength" -> maxLengthFails(field, value)
      [] rule = "pattern"   -> patternFails(field, value)
      [] rule = "validator" -> validatorFails(field, value)

ruleMessage(rule, field, value) ==
    CASE rule = "required"  -> requiredMessage(field)
      [] rule = "minLength" -> minLengthMessage(field)
      [] rule = "maxLength" -> maxLengthMessage(field)
      [] rule = "pattern"   -> patternMessage(field)
      [] rule = "validator" -> validatorMessage(field, value)

FailingRules(field, value) == {i \in 1..Len(RuleOrder) : ruleFails(RuleOrder[i], field, value)}

\* the message of the first rule of RuleOrder that fails, null when none does
FirstFailing(field, value) ==
    IF FailingRules(field, value) = {} THEN NoError
    ELSE ruleMessage(RuleOrder[CHOOSE i \in FailingRules(field, value) :
                                 \A j \in FailingRules(field, value) : i <= j],
                     field, value)

\* C27: the error the form records for a field is the message of the first
\* failing rule in the order required, min-length, max-length, pattern, custom
\* validator, and null (validate: no entry) when no rule fails; rules that fail
\* after the first one leave no trace in it.
C27_FirstFailingRule ==
    [][ /\ (call'.op = "handleChange" /\ getField(call'.args[1]) # <<>>) =>
              errors'[call'.args[1]] =
                  FirstFailing(getField(call'.args[1])[1], call'.args[2])
        /\ call'.op = "validate" =>
              \A i \in 1..Len(fields) :
                 LET first == FirstFailing(fields[i], valueOf(values, fields[i].name))
                 IN  /\ Has(errors', fields[i].name) <=> first # NoError
                     /\ Has(errors', fields[i].name) => errors'[fields[i].name] = first
      ]_vars

\* a value fails min-length, max-length and the validator at once, and the
\* recorded error is the min-length message
C27_Witness ==
    /\ call.op = "handleChange" /\ call.args[1] = "f" /\ fields[1].name = "f"
    /\ Cardinality(FailingRules(fields[1], call.args[2])) >= 3
    /\ errors["f"] = minLengthMessage(fields[1])

FalsyValues == { Undefined, Str(<<>>), Number(0), Bool(FALSE) }

\* what a condition says about the form values, for the five operators
ConditionHolds(condition, vals) ==
    LET x == valueOf(vals, condition.field)
    IN CASE condition.operator \in {"===", "=="} -> looseEq(x, condition.value)
         [] condition.operator \in {"!==", "!="} -> ~looseEq(x, condition.value)
         [] condition.operator = "includes" ->
              x.t = "array" /\ \E i \in 1..Len(x.v) : Str(x.v[i]) = condition.value
         [] condition.operator = "empty"    -> x \in FalsyValues
         [] condition.operator = "notEmpty" -> x \notin FalsyValues

FiveOperators == {"===", "==", "!==", "!=", "includes", "empty", "notEmpty"}

\* C28: a field with a condition is rendered iff the condition holds on the
\* current form values (equality, inequality, includes, empty, notEmpty), and
\* on every form value empty is the complement of notEmpty and equality the
\* complement of inequality.
C28_RenderedIffConditionHolds ==
    /\ (call.op = "renderField" /\ fields[call.args[1]].condition # NoCondition
          /\ fields[call.args[1]].condition.operator \in FiveOperators) =>
           (ret.rendered <=> ConditionHolds(fields[call.args[1]].condition, values))
    /\ \A i \in 1..Len(fields), v \in ConditionValues :
         LET on(operator) == evaluateCondition([field |-> fields[i].name,
                                 operator |-> operator, value |-> v], values)
         IN  /\ on("empty") <=> ~on("notEmpty")
             /\ on("===") <=> ~on("!==")
             /\ on("==") <=> ~on("!=")

\* the field shown when g includes "a" has been rendered over g = ["a"]
C28_Witness ==
    /\ call.op = "renderField" /\ call.args[1] = 1
    /\ fields[1].condition # NoCondition
    /\ fields[1].condition.operator = "includes"
    /\ valueOf(values, "g") = Arr(<< <<"a">> >>)
    /\ ret.rendered

\* ------------------------------------------------------------------------
\* Store (setState, subscribe) and EventBus (on, off, emit) with the
\* listeners that clients register. A listener is a record: id names the
\* function, does says what the function does when it is invoked.
\* ------------------------------------------------------------------------

MaxListeners == 3
MaxCallbacks == 2

Snapshot == [user |-> storeUser, session |-> storeSession, currentRole |-> storeRole]

\* { ...state, ...newState }
spread(state, newState) ==
    [k \in DOMAIN state \cup DOMAIN newState |->
        IF k \in DOMAIN newState THEN newState[k] ELSE state[k]]

\* typeof updater === 'function' ? updater(this.state) : updater
Updaters == {"login", "authenticated", "expire", "nothing"}
newStateOf(updater, state) ==
    CASE updater = "login"         -> [user |-> LoggedInUser(DefaultRole),
                                       session |-> LoggedInSession]
      [] updater = "authenticated" -> [session |-> LoggedInSession]
      [] updater = "expire"        ->
           [session |-> [state.session EXCEPT !.isAuthenticated = FALSE]]
      [] updater = "nothing"       -> Null

\* what the functions registered with store.subscribe do with (state, previous)
StoreListeners ==
    { [id |-> "watch", does |-> "return"],
      [id |-> "faulty", does |-> "throw"],
      [id |-> "relogin", does |-> "setState"],
      [id |-> "oneShot", does |-> "unsubscribe"] }

\* what the functions registered with eventBus.on do with (data); target is
\* the callback a function removes or the event it emits
ClientEvents == {"e1", "e2"}
BusData == {"d1", "d2"}
BusCallbacks ==
    { [id |-> "show", does |-> "return", target |-> ""],
      [id |-> "broken", does |-> "throw", target |-> ""],
      [id |-> "dropShow", does |-> "off", target |-> "show"],
      [id |-> "forward", does |-> "emit", target |-> "e2"] }

withoutId2(ls, id) == LET Keep(l) == l.id # id IN SelectSeq(ls, Keep)

\* an entry of the invocation log
Called(id, event, data, by, threw) ==
    [kind |-> "callback", id |-> id, event |-> event, data |-> data,
     by |-> by, threw |-> threw]
Notified(id, state, previousState, by, threw) ==
    [kind |-> "listener", id |-> id, state |-> state, previousState |-> previousState,
     by |-> by, threw |-> threw]

\* off(event, callback)
off(evs, event, id) ==
    IF ~Has(evs, event) THEN evs
    ELSE [evs EXCEPT ![event] = withoutId2(@, id)]

\* on(event, callback)
on(evs, event, cb) ==
    (event :> Append(IF Has(evs, event) THEN evs[event] ELSE <<>>, cb)) @@ evs

\* a callback threw inside forEach and emit goes on behind the throwing one
afterThrow_Abort(cbs, i) == Len(cbs) + 1
\* try { callback(data) } catch (error) { console.error(...) }
afterThrow(cbs, i) == i + 1

RECURSIVE emit(_, _, _), deliver(_, _, _, _, _, _), onceCallback(_, _, _, _)
\* emit(event, data) in the context ctx = [state, listeners, events, log,
\* emitted, calls, emits]
emit(ctx, event, data) ==
    The({ IF ~Has(c.events, event) THEN c
          ELSE deliver(c, c.events[event], 1, event, data, c.emits) :
          c \in {[ctx EXCEPT !.emitted = Append(@, Ev(event, data)), !.emits = @ + 1]} })

\* the wrapper once(event, callback) registers, called with data:
\* callback(data); this.off(event, onceCallback). The wrapped callback
\* returns, throws, or emits the event again the first time it is called.
onceCallback(ctx, cb, event, data) ==
    The({ IF cb.target = "throw" THEN c
          ELSE IF cb.target = "emitSame" /\ c.runs[cb.id] = 1
          THEN The({ [n EXCEPT !.events = off(@, event, cb.id)] :
                     n \in {emit(c, event, data)} })
          ELSE [c EXCEPT !.events = off(@, event, cb.id)] :
          c \in {[ctx EXCEPT !.runs[cb.id] = @ + 1]} })

\* this.events[event].forEach(callback => ...) from index i on
deliver(ctx, cbs, i, event, data, by) ==
    IF i > Len(cbs) THEN ctx
    ELSE The({ CASE cbs[i].does = "throw" ->
                      deliver(c, cbs, afterThrow(cbs, i), event, data, by)
                 [] cbs[i].does = "once" ->
                      deliver(onceCallback(c, cbs[i], event, data), cbs,
                              IF cbs[i].target = "throw" THEN afterThrow(cbs, i)
                              ELSE i + 1,
                              event, data, by)
                 [] cbs[i].does = "off" ->
                      deliver([c EXCEPT !.events = off(@, event, cbs[i].target)],
                              cbs, i + 1, event, data, by)
                 [] cbs[i].does = "emit" ->
                      deliver(emit(c, cbs[i].target, data), cbs, i + 1, event, data, by)
                 [] OTHER -> deliver(c, cbs, i + 1, event, data, by) :
               c \in {[ctx EXCEPT !.log = Append(@, Called(cbs[i].id, event, data, by,
                                                           \/ cbs[i].does = "throw"
                                                           \/ /\ cbs[i].does = "once"
                                                              /\ cbs[i].target = "throw"))]} })

RECURSIVE setState(_, _), notify(_, _, _, _, _)
\* setState(updater) in the context ctx
setState(ctx, updater) ==
    The({ emit(c2, "state:updated", [state |-> c2.state, previousState |-> ctx.state]) :
          c2 \in { notify(c1, c1.listeners, 1, ctx.state, c1.calls) :
                   c1 \in {[ctx EXCEPT !.state = spread(@, newStateOf(updater, @)),
                                       !.calls = @ + 1]} } })

\* this.listeners.forEach(listener => ...) from index i on; the listener is
\* handed this.state as it is when its turn comes
notify(ctx, ls, i, previousState, by) ==
    IF i > Len(ls) THEN ctx
    ELSE The({ CASE ls[i].does = "setState" /\ ~c.state.session.isAuthenticated ->
                      notify(setState(c, "authenticated"), ls, i + 1, previousState, by)
                 [] ls[i].does = "unsubscribe" ->
                      notify([c EXCEPT !.listeners = withoutId2(@, ls[i].id)],
                             ls, i + 1, previousState, by)
                 [] OTHER -> notify(c, ls, i + 1, previousState, by) :
               c \in {[ctx EXCEPT !.log = Append(@, Notified(ls[i].id, ctx.state,
                                                   previousState, by, ls[i].does = "throw"))]} })

Context ==
    [state |-> Snapshot, listeners |-> listeners, events |-> events,
     log |-> <<>>, emitted |-> <<>>, calls |-> 0, emits |-> 0, runs |-> onceRuns]

SetState ==
    \E updater \in Updaters :
      \E r \in {setState(Context, updater)} :
        /\ call' = [op |-> "setState", args |-> <<updater>>] /\ ret' = None
        /\ storeUser' = r.state.user /\ storeSession' = r.state.session
        /\ storeRole' = r.state.currentRole
        /\ listeners' = r.listeners /\ events' = r.events
        /\ invoked' = r.log /\ emitted' = r.emitted
        /\ saved' = <<>> /\ postRun' = <<>>
        /\ UNCHANGED <<lateVars, backendVars, formVars, cfgVars, roleVars, authVars, navVars,
                       assessVars, apiVars>>

Subscribe ==
    \E l \in StoreListeners :
        /\ Len(listeners) < MaxListeners
        /\ \A i \in 1..Len(listeners) : listeners[i].id # l.id
        /\ \E r \in {[Context EXCEPT !.listeners = Append(@, l)]} :
             /\ call' = [op |-> "subscribe", args |-> <<l.id>>] /\ ret' = None
             /\ storeUser' = r.state.user /\ storeSession' = r.state.session
             /\ storeRole' = r.state.currentRole
             /\ listeners' = r.listeners /\ events' = r.events
             /\ invoked' = r.log /\ emitted' = r.emitted
             /\ saved' = <<>> /\ postRun' = <<>>
             /\ UNCHANGED <<lateVars, backendVars, formVars, cfgVars, roleVars, authVars, navVars,
                            assessVars, apiVars>>

Unsubscribe ==
    \E i \in 1..Len(listeners) :
      \E r \in {[Context EXCEPT !.listeners = withoutId2(@, listeners[i].id)]} :
        /\ call' = [op |-> "unsubscribe", args |-> <<listeners[i].id>>] /\ ret' = None
        /\ storeUser' = r.state.user /\ storeSession' = r.state.session
        /\ storeRole' = r.state.currentRole
        /\ listeners' = r.listeners /\ events' = r.events
        /\ invoked' = r.log /\ emitted' = r.emitted
        /\ saved' = <<>> /\ postRun' = <<>>
        /\ UNCHANGED <<lateVars, backendVars, formVars, cfgVars, roleVars, authVars, navVars,
                       assessVars, apiVars>>

\* calls of one once-registered callback that are followed
MaxRuns == 2

On ==
    \E event \in ClientEvents, cb \in BusCallbacks :
        /\ (cb.does = "emit" => event # cb.target)
        /\ Has(events, event) =>
              /\ Len(events[event]) < MaxCallbacks
              /\ \A i \in 1..Len(events[event]) : events[event][i].id # cb.id
        /\ \E r \in {[Context EXCEPT !.events = on(@, event, cb)]} :
             /\ call' = [op |-> "on", args |-> <<event, cb.id>>] /\ ret' = None
             /\ storeUser' = r.state.user /\ storeSession' = r.state.session
             /\ storeRole' = r.state.currentRole
             /\ listeners' = r.listeners /\ events' = r.events
             /\ invoked' = r.log /\ emitted' = r.emitted
             /\ saved' = <<>> /\ postRun' = <<>>
             /\ onceRuns' = r.runs
             /\ UNCHANGED <<invalidated, questionVars, notOnceVars, backendVars, formVars, cfgVars, roleVars, authVars, navVars,
                            assessVars, apiVars>>

Off ==
    \E event \in DOMAIN events :
      \E i \in 1..Len(events[event]) :
        \E r \in {[Context EXCEPT !.events = off(@, event, events[event][i].id)]} :
          /\ call' = [op |-> "off", args |-> <<event, events[event][i].id>>] /\ ret' = None
          /\ storeUser' = r.state.user /\ storeSession' = r.state.session
          /\ storeRole' = r.state.currentRole
          /\ listeners' = r.listeners /\ events' = r.events
          /\ invoked' = r.log /\ emitted' = r.emitted
          /\ saved' = <<>> /\ postRun' = <<>>
          /\ onceRuns' = r.runs
          /\ UNCHANGED <<invalidated, questionVars, notOnceVars, backendVars, formVars, cfgVars, roleVars, authVars, navVars,
                         assessVars, apiVars>>

Emit ==
    \E event \in ClientEvents, data \in BusData :
      \E r \in {emit(Context, event, data)} :
        /\ \A id \in DOMAIN onceRuns : onceRuns[id] < MaxRuns
        /\ call' = [op |-> "emit", args |-> <<event, data>>] /\ ret' = None
        /\ storeUser' = r.state.user /\ storeSession' = r.state.session
        /\ storeRole' = r.state.currentRole
        /\ listeners' = r.listeners /\ events' = r.events
        /\ invoked' = r.log /\ emitted' = r.emitted
        /\ saved' = <<>> /\ postRun' = <<>>
        /\ onceRuns' = r.runs
        /\ UNCHANGED <<invalidated, questionVars, notOnceVars, backendVars, formVars, cfgVars, roleVars, authVars, navVars,
                       assessVars, apiVars>>

\* the callbacks a page has registered for state:updated before the store is used
StateUpdatedCallbacks ==
    { Null, "state:updated" :> << [id |-> "broken", does |-> "throw", target |-> ""],
                                  [id |-> "show", does |-> "return", target |-> ""] >> }

InitStore ==
    /\ mode = "local" /\ lsRole = None
    /\ CfgConstructed /\ RoleConstructed /\ AuthConstructed /\ StoreConstructed
    /\ NavConstructed /\ AssessConstructed /\ ApiConstructed
    /\ BackendStopped /\ FormUnmounted /\ LateConstructed
    /\ listeners = <<>> /\ events \in StateUpdatedCallbacks /\ invoked = <<>>
    /\ OpConstructed

NextStore == SetState \/ Subscribe \/ Unsubscribe

SpecStore == InitStore /\ [][NextStore]_vars

InitBus ==
    /\ mode = "local" /\ lsRole = None
    /\ CfgConstructed /\ RoleConstructed /\ AuthConstructed /\ StoreConstructed
    /\ NavConstructed /\ AssessConstructed /\ ApiConstructed
    /\ ExtConstructed /\ OpConstructed

NextBus == On \/ Off \/ Emit

SpecBus == InitBus /\ [][NextBus]_vars

\* the invocations that the outermost call of the last operation made itself
OwnNotifications(log) ==
    LET Own(e) == e.kind = "listener" /\ e.by = 1 IN SelectSeq(log, Own)
OwnDeliveries(log, event) ==
    LET Own(e) == e.kind = "callback" /\ e.by = 1 /\ e.event = event
    IN SelectSeq(log, Own)

\* C29: a store.setState invokes each subscribed listener exactly once, in
\* subscription order, with the snapshot that this setState produced and the
\* snapshot that preceded it, also behind a listener that throws; the keys
\* the update does not name have in that snapshot the value they had.
C29_ListenersGetProducedSnapshot ==
    [][ call'.op = "setState" =>
          LET update == newStateOf(call'.args[1], Snapshot)
              produced == spread(Snapshot, update)
              own == OwnNotifications(invoked')
          IN  /\ Len(own) = Len(listeners)
              /\ \A i \in 1..Len(own) :
                    /\ own[i].id = listeners[i].id
                    /\ own[i].previousState = Snapshot
                    /\ own[i].state = produced
                    /\ \A k \in DOMAIN Snapshot \ DOMAIN update :
                          own[i].state[k] = Snapshot[k]
      ]_vars

\* C30: eventBus.emit(event, data) invokes every callback subscribed to the
\* event exactly once, in subscription order, with data, also behind a
\* callback that throws, and returns to the emitter.
C30_EmitInvokesEveryCallback ==
    [][ call'.op = "emit" =>
          LET event == call'.args[1]
              cbs == IF Has(events, event) THEN events[event] ELSE <<>>
              own == OwnDeliveries(invoked', event)
          IN  /\ Len(own) = Len(cbs)
              /\ \A i \in 1..Len(own) :
                    own[i].id = cbs[i].id /\ own[i].data = call'.args[2]
              /\ ret' = None
      ]_vars

\* an emit whose first callback threw has gone on to the second one
C30_Witness ==
    /\ call.op = "emit" /\ Len(invoked) >= 2
    /\ invoked[1].threw /\ invoked[1].event = call.args[1]
    /\ invoked[2].event = call.args[1] /\ invoked[2].by = 1

\* ------------------------------------------------------------------------
\* QuestionService: responses and their cache.
\* ------------------------------------------------------------------------

\* the question bank of questions.json: q1 must be answered, q2 need not
QuestionBank == { [id |-> "q1", is_required |-> TRUE],
                  [id |-> "q2", is_required |-> FALSE] }
QuestionIds == {"q1", "q2"}
AssessmentIds == {"A", "B"}

\* responseData.text of a text question: empty or not
ResponseTexts == { <<>>, <<"y", "e", "s">> }

ResponseOf(assessmentId, questionId, status) ==
    [assessment_id |-> assessmentId, question_id |-> questionId, status |-> status]

\* what the backend answers to GET /responses?assessment_id=..&question_id=..:
\* a failure, no row, or the row of that assessment and question
FetchedResponses(assessmentId, questionId) ==
    { [success |-> FALSE, data |-> <<>>], [success |-> TRUE, data |-> <<>>] }
      \cup { [success |-> TRUE, data |-> << ResponseOf(assessmentId, questionId, status) >>] :
             status \in {"submitted", "approved"} }

\* this.responses.set(questionId, response) / has(questionId) / get(questionId)
responseKey(assessmentId, questionId) == questionId

\* getQuestion(questionId): <<question>> or <<>>
getQuestion(questionId) ==
    IF \E q \in questions : q.id = questionId
    THEN << CHOOSE q \in questions : q.id = questionId >> ELSE <<>>

\* getResponse(assessmentId, questionId) on the cache rs with the backend's
\* answer fetched: the response returned (Null for null) and the cache left
getResponse(rs, assessmentId, questionId, fetched) ==
    IF Has(rs, responseKey(assessmentId, questionId))
    THEN [response |-> rs[responseKey(assessmentId, questionId)], responses |-> rs]
    ELSE IF fetched.success /\ Len(fetched.data) > 0
         THEN [response |-> fetched.data[1],
               responses |-> (responseKey(assessmentId, questionId) :> fetched.data[1]) @@ rs]
         ELSE [response |-> Null, responses |-> rs]

\* submitResponse(assessmentId, questionId, responseData)
SubmitResponse ==
    \E assessmentId \in AssessmentIds, questionId \in QuestionIds \cup {"q9"},
       text \in ResponseTexts, saveOk \in SaveOutcomes :
      \E sv \in {save(mode, apiCache, "responses", "POST", saveOk)} :
        /\ call' = [op |-> "submitResponse", args |-> <<assessmentId, questionId>>]
        /\ postRun' = <<>>
        /\ IF getQuestion(questionId) = <<>>
           THEN /\ ret' = "Question not found"
                /\ emitted' = <<>> /\ saved' = <<>>
                /\ UNCHANGED <<responses, apiCache>>
           ELSE IF getQuestion(questionId)[1].is_required /\ text = <<>>
           THEN /\ ret' = "Response is required"
                /\ emitted' = <<>> /\ saved' = <<>>
                /\ UNCHANGED <<responses, apiCache>>
           ELSE IF ~sv.ok
           THEN /\ ret' = "Failed to save response"
                /\ emitted' = sv.events /\ saved' = sv.req
                /\ apiCache' = sv.cache
                /\ UNCHANGED responses
           ELSE /\ ret' = ResponseOf(assessmentId, questionId, "submitted")
                /\ emitted' = sv.events \o << Ev("question:answered", questionId) >>
                /\ saved' = sv.req
                /\ apiCache' = sv.cache
                /\ responses' = (responseKey(assessmentId, questionId) :>
                                   ResponseOf(assessmentId, questionId, "submitted"))
                                @@ responses
        /\ UNCHANGED <<invalidated, newerVars, backendVars, formVars, pubsubVars, cfgVars, roleVars, authVars,
                       storeVars, navVars, assessVars, loadVars, questions>>

\* saveDraft(assessmentId, questionId, responseData): the result of the save
\* request is not looked at
SaveDraft ==
    \E assessmentId \in AssessmentIds, questionId \in QuestionIds, saveOk \in SaveOutcomes :
      \E sv \in {save(mode, apiCache, "responses", "POST", saveOk)} :
        /\ call' = [op |-> "saveDraft", args |-> <<assessmentId, questionId>>]
        /\ ret' = None /\ postRun' = <<>>
        /\ emitted' = sv.events /\ saved' = sv.req /\ apiCache' = sv.cache
        /\ responses' = (responseKey(assessmentId, questionId) :>
                           ResponseOf(assessmentId, questionId, "draft")) @@ responses
        /\ UNCHANGED <<invalidated, newerVars, backendVars, formVars, pubsubVars, cfgVars, roleVars, authVars,
                       storeVars, navVars, assessVars, loadVars, questions>>

GetResponse ==
    \E assessmentId \in AssessmentIds, questionId \in QuestionIds :
      \E fetched \in FetchedResponses(assessmentId, questionId) :
        \E r \in {getResponse(responses, assessmentId, questionId, fetched)} :
          /\ call' = [op |-> "getResponse", args |-> <<assessmentId, questionId>>]
          /\ ret' = r.response
          /\ responses' = r.responses
          /\ emitted' = <<>> /\ saved' = <<>> /\ postRun' = <<>>
          /\ UNCHANGED <<invalidated, newerVars, backendVars, formVars, pubsubVars, frontVars, questions>>

RECURSIVE progressOver(_, _, _, _, _)
\* the loop of getProgress over the questions qs still to visit: the cache
\* left and the responses that were counted as answered
progressOver(rs, qs, assessmentId, answers, counted) ==
    IF qs = {} THEN [responses |-> rs, counted |-> counted]
    ELSE The({ The({ progressOver(r.responses, qs \ {q}, assessmentId, answers,
                        IF r.response # Null /\ r.response.status \in {"submitted", "approved"}
                        THEN counted \cup {r.response} ELSE counted) :
                     r \in {getResponse(rs, assessmentId, q, answers[q])} }) :
               q \in {CHOOSE q \in qs : TRUE} })

\* getProgress(assessmentId); the responses counted are kept with the numbers
GetProgress ==
    \E assessmentId \in AssessmentIds :
      \E rows \in {"none", "submitted"} :
        \E r \in {progressOver(responses, {q.id : q \in questions}, assessmentId,
                     [q \in QuestionIds |->
                        IF rows = "none" THEN [success |-> TRUE, data |-> <<>>]
                        ELSE [success |-> TRUE,
                              data |-> << ResponseOf(assessmentId, q, "submitted") >>]],
                     {})} :
          /\ questions # {}
          /\ call' = [op |-> "getProgress", args |-> <<assessmentId>>]
          /\ ret' = [total |-> Cardinality(questions),
                     answered |-> Cardinality(r.counted), counted |-> r.counted]
          /\ responses' = r.responses
          /\ emitted' = <<>> /\ saved' = <<>> /\ postRun' = <<>>
          /\ UNCHANGED <<invalidated, newerVars, backendVars, formVars, pubsubVars, frontVars, questions>>

\* QuestionService.initialize(): the question bank is loaded
QuestionsInitialize ==
    \E fetchOk \in BOOLEAN :
      \E l \in {load(mode, apiCache, "questions", fetchOk)} :
        /\ questions = {}
        /\ call' = [op |-> "questionService.initialize", args |-> <<>>]
        /\ ret' = l.ok
        /\ questions' = IF l.ok THEN QuestionBank ELSE questions
        /\ apiCache' = l.cache
        /\ emitted' = l.events /\ saved' = <<>> /\ postRun' = <<>>
        /\ UNCHANGED <<invalidated, newerVars, backendVars, formVars, pubsubVars, cfgVars, roleVars, authVars,
                       storeVars, navVars, assessVars, loadVars, responses>>

InitQuestions ==
    /\ mode \in {"local", "api"}
    /\ workflows = DefaultWorkflows /\ walk = <<>>
    /\ roles = RolesFixture /\ permissions = PermissionsFixture
    /\ currentRole = DefaultRole /\ lsRole = None
    /\ storeRole = updateStoreRole(RolesFixture, PermissionsFixture, DefaultRole,
                                   StoreInitRole).storeRole
    /\ storeUser = LoggedInUser(DefaultRole) /\ storeSession = LoggedInSession
    /\ lsUser = [id |-> "12345", role |-> DefaultRole]
    /\ lsSession = [token |-> "demo-token", expiresAt |-> 1]
    /\ apiCache = {"roles", "permissions"} /\ LoadConstructed
    /\ NavConstructed /\ AssessConstructed /\ ExtConstructed /\ OpConstructed

NextQuestions ==
    \/ QuestionsInitialize
    \/ SubmitResponse
    \/ SaveDraft
    \/ GetResponse
    \/ GetProgress

SpecQuestions == InitQuestions /\ [][NextQuestions]_vars

\* C31: getResponse(assessmentId, questionId) returns nothing or a response of
\* that assessment and question, and getProgress(assessmentId) counts only
\* responses of that assessment.
C31_ResponseBelongsToPair ==
    /\ (call.op = "getResponse" /\ ret # Null) =>
           /\ ret.assessment_id = call.args[1]
           /\ ret.question_id = call.args[2]
    /\ call.op = "getProgress" =>
           \A r \in ret.counted : r.assessment_id = call.args[1]

\* C32: once the cache entry of a resource has been cleared (clearCache,
\* successful remote save), the cache does not hold again, and a load answered
\* from the cache does not return, the data of a fetch that had been started
\* before the clearing.
C32_ClearedStaysCleared ==
    /\ \A resource \in DOMAIN cacheData :
          cacheData[resource].from = "fetch" => cacheData[resource].n \notin invalidated
    /\ (call.op = "load" /\ ret.from = "fetch") => ret.n \notin invalidated

\* ------------------------------------------------------------------------
\* AuthService.logout and client storage keys (demo environment: logout makes
\* no request and runs in one piece).
\* ------------------------------------------------------------------------

\* APP_CONFIG.storage
StoragePrefix == "reabel_"
StorageKeys == [role |-> "demoRole", user |-> "currentUser", theme |-> "theme",
                session |-> "sessionData"]

\* APP_CONFIG.storage.prefix + key
fullKey(key) == <<StoragePrefix, key>>

\* the items of localStorage that the services read and write
storageItems ==
    (fullKey("demoRole") :> lsRole) @@ (fullKey("user") :> lsUser)
        @@ (fullKey("session") :> lsSession)

\* clearStorage(): the keys it removes
clearedKeys == { fullKey(StorageKeys[k]) : k \in DOMAIN StorageKeys }

LoggedOutUser == [id |-> None, role |-> None, permissions |-> {}]
LoggedOutSession == [isAuthenticated |-> FALSE, token |-> None, expiresAt |-> 0]

\* logout()
Logout ==
    /\ call' = [op |-> "logout", args |-> <<>>]
    /\ ret' = TRUE
    /\ storeUser' = LoggedOutUser /\ storeSession' = LoggedOutSession
    /\ lsRole' = IF fullKey("demoRole") \in clearedKeys THEN None ELSE lsRole
    /\ lsUser' = IF fullKey("user") \in clearedKeys THEN Null ELSE lsUser
    /\ lsSession' = IF fullKey("session") \in clearedKeys THEN Null ELSE lsSession
    /\ cacheData' = Null /\ apiCache' = {}
    /\ invalidated' = invalidated \cup CreatedFor(LoadResources)
    /\ emitted' = << Ev("state:updated", None), Ev("user:logged-out", None) >>
    /\ saved' = <<>> /\ postRun' = <<>>
    /\ UNCHANGED <<backendVars, formVars, pubsubVars, otherLateVars, cfgVars,
                   roles, permissions, currentRole, storeRole, navVars, assessVars,
                   pendingRequests, requests, callers>>

\* isAuthenticated() at instant now; an expired session is logged out
IsAuthenticated ==
    \E now \in 0..MaxNow :
        /\ call' = [op |-> "isAuthenticated", args |-> <<now>>]
        /\ saved' = <<>> /\ postRun' = <<>>
        /\ IF storeSession.isAuthenticated /\ storeSession.expiresAt # 0
              /\ now > storeSession.expiresAt
           THEN /\ ret' = FALSE
                /\ storeUser' = LoggedOutUser /\ storeSession' = LoggedOutSession
                /\ lsRole' = IF fullKey("demoRole") \in clearedKeys THEN None ELSE lsRole
                /\ lsUser' = IF fullKey("user") \in clearedKeys THEN Null ELSE lsUser
                /\ lsSession' = IF fullKey("session") \in clearedKeys THEN Null
                                ELSE lsSession
                /\ cacheData' = Null /\ apiCache' = {}
                /\ invalidated' = invalidated \cup CreatedFor(LoadResources)
                /\ emitted' = << Ev("state:updated", None), Ev("user:logged-out", None) >>
           ELSE /\ ret' = storeSession.isAuthenticated
                /\ emitted' = <<>>
                /\ UNCHANGED <<storeUser, storeSession, lsRole, lsUser, lsSession,
                               cacheData, apiCache, invalidated>>
        /\ UNCHANGED <<backendVars, formVars, pubsubVars, otherLateVars, cfgVars,
                       roles, permissions, currentRole, storeRole, navVars, assessVars,
                       pendingRequests, requests, callers>>

NextLogout == Login \/ Logout \/ IsAuthenticated \/ RestoreSession \/ Reload

SpecLogout == InitSession /\ [][NextLogout]_vars

\* C33: after logout the store session is unauthenticated without a token, the
\* persisted user and session are gone from client storage, and restoreSession
\* would return false at every instant.
C33_LogoutEndsSession ==
    call.op = "logout" =>
        /\ ~storeSession.isAuthenticated /\ storeSession.token = None
        /\ loadFromStorage(lsUser) = Null /\ loadFromStorage(lsSession) = Null
        /\ \A now \in 0..MaxNow : ~restoreSession(now).ret

\* the fields of an assessment object that calculateScores may write
ScoreFields == {"progress", "overall_score", "dimension_scores"}

\* the two listed objects differ in score fields at most
SameButScores(before, after) ==
    \A f \in DOMAIN before : f \notin ScoreFields => after[f] = before[f]

\* C34: a successful calculateScores leaves every field of every listed
\* assessment other than progress, overall_score and dimension_scores as it
\* was, and a successful transitionState whose post-actions ran calculate_score
\* leaves the assessment in the new state with the stamp of the transition.
C34_ScoresOnlyTouchScoreFields ==
    [][ /\ (call'.op = "calculateScores" /\ ret'.err = None)
            => /\ Len(assessments') = Len(assessments)
               /\ \A i \in 1..Len(assessments) :
                     SameButScores(assessments[i], assessments'[i])
        /\ (/\ call'.op = "transitionState" /\ ret' = None
            /\ \E k \in 1..Len(postRun') : postRun'[k] = "calculate_score")
            => \A i \in 1..Len(assessments') :
                  assessments'[i].id = call'.args[1]
                    => /\ assessments'[i].status = call'.args[2]
                       /\ Has(assessments'[i].stamps, call'.args[2]) ]_vars

\* initialize() has returned true at some point: this.permissions is assigned
\* by its second load only, and nothing after that assignment throws
RoleServiceInitialized == permissions # Null

\* C35: once roleService.initialize has succeeded, the active role id names a
\* role of the loaded role set and equals the id of the store's currentRole,
\* whatever role id client storage held at startup and whatever switchRole
\* calls followed.
C35_ActiveRoleIsLoadedRole ==
    RoleServiceInitialized
        => /\ Has(roles, currentRole)
           /\ storeRole.id = currentRole

\* C37: once off(event, callback) has returned, the callback is not invoked for
\* that event again, also when the off was made by another callback while an
\* emit of the event was in progress: after the callback dropShow has run for
\* an event (it calls off(event, show)), show is not called for that event in
\* the rest of the operation.
C37_OffStopsDelivery ==
    \A i, j \in 1..Len(invoked) :
        (/\ i < j
         /\ invoked[i].kind = "callback" /\ invoked[i].id = "dropShow"
         /\ invoked[j].kind = "callback" /\ invoked[j].event = invoked[i].event)
            => invoked[j].id # "show"

\* ------------------------------------------------------------------------
\* eventBus.once
\* ------------------------------------------------------------------------

\* the wrappers once() registers, by what the wrapped callback does
OnceCallbacks ==
    { [id |-> "onceShow", does |-> "once", target |-> "return"],
      [id |-> "onceBroken", does |-> "once", target |-> "throw"],
      [id |-> "onceAgain", does |-> "once", target |-> "emitSame"] }

\* once(event, callback)
Once ==
    \E event \in ClientEvents, cb \in OnceCallbacks :
        /\ \A e \in DOMAIN events : \A i \in 1..Len(events[e]) : events[e][i].id # cb.id
        /\ Has(events, event) => Len(events[event]) < MaxCallbacks
        /\ \E r \in {[Context EXCEPT !.events = on(@, event, cb),
                                     !.runs = (cb.id :> 0) @@ @]} :
             /\ call' = [op |-> "once", args |-> <<event, cb.id>>] /\ ret' = None
             /\ storeUser' = r.state.user /\ storeSession' = r.state.session
             /\ storeRole' = r.state.currentRole
             /\ listeners' = r.listeners /\ events' = r.events
             /\ invoked' = r.log /\ emitted' = r.emitted
             /\ saved' = <<>> /\ postRun' = <<>>
             /\ onceRuns' = r.runs
             /\ UNCHANGED <<invalidated, questionVars, notOnceVars, backendVars, formVars, cfgVars,
                            roleVars, authVars, navVars, assessVars, apiVars>>

NextOnce == Once \/ On \/ Off \/ Emit

SpecOnce == InitBus /\ [][NextOnce]_vars

\* C36: a callback registered with once(event, cb) is called at most once,
\* whatever is emitted afterwards, also when it throws and when it emits the
\* event itself.
C36_OnceAtMostOnce ==
    \A id \in DOMAIN onceRuns : onceRuns[id] <= 1

\* ------------------------------------------------------------------------
\* Component lifecycle: mount, the async beforeMount of Sidebar and
\* RoleSwitcher, destroy.
\* ------------------------------------------------------------------------

\* callback.bind(this) of this.subscribe(EVENTS.ROLE_CHANGED, this.onRoleChanged)
boundOnRoleChanged(c) == [id |-> c, does |-> "return", target |-> ""]

\* mount(container): beforeMount() is called and not awaited, so it runs up to
\* its first await; render, mounted = true, afterMount follow at once
Mount ==
    \E c \in ComponentNames :
        /\ components[c].pc = "constructed"
        /\ components' = [components EXCEPT ![c].pc = "waiting", ![c].mounted = TRUE]
        /\ call' = [op |-> "mount", args |-> <<c>>] /\ ret' = None
        /\ emitted' = <<>> /\ saved' = <<>> /\ postRun' = <<>> /\ invoked' = <<>>
        /\ UNCHANGED <<frontVars, backendVars, formVars, listeners, events,
                       invalidated, questionVars, notCompVars>>

\* the rest of beforeMount once the loads it awaits have settled:
\* roleService.initialize(), for the Sidebar navigationService.initialize()
\* too, the state assignments, and this.subscribe(EVENTS.ROLE_CHANGED, ...)
BeforeMountContinue ==
    \E c \in ComponentNames :
      \E okRoles \in BOOLEAN, okPerms \in BOOLEAN, okNav \in BOOLEAN :
        LET r == roleInitialize(okRoles, okPerms)
            l3 == IF c = "Sidebar" THEN load(mode, r.apiCache, "navigation", okNav)
                  ELSE [ok |-> FALSE, cache |-> r.apiCache, events |-> <<>>]
            nav == IF l3.ok THEN NavigationFixture ELSE navigationData
            navEv == IF l3.ok THEN << Ev("nav:loaded", "navigation") >> ELSE <<>>
        IN /\ components[c].pc = "waiting"
           /\ (c # "Sidebar" => okNav)
           /\ call' = [op |-> "beforeMount", args |-> <<c>>] /\ ret' = None
           /\ roles' = r.roles /\ permissions' = r.permissions
           /\ currentRole' = r.currentRole /\ storeRole' = r.storeRole
           /\ apiCache' = l3.cache /\ navigationData' = nav
           /\ components' =
                [components EXCEPT
                    ![c].pc = "done",
                    ![c].state = [currentRole |-> getCurrentRole(r.roles, r.currentRole),
                                  menuItems |-> IF c = "Sidebar"
                                                THEN buildMenu(nav, r.roles, r.currentRole,
                                                               r.currentRole)
                                                ELSE <<>>],
                    ![c].subscriptions = Append(@, boundOnRoleChanged(c))]
           /\ events' = on(events, "role:changed", boundOnRoleChanged(c))
           /\ emitted' = r.emitted \o l3.events \o navEv
           /\ saved' = <<>> /\ postRun' = <<>> /\ invoked' = <<>>
           /\ UNCHANGED <<cfgVars, lsRole, authVars, storeUser, storeSession, sidebar,
                          assessVars, loadVars, backendVars, formVars, listeners,
                          invalidated, questionVars, notCompVars>>

\* this.subscriptions.forEach(unsubscribe => unsubscribe()) on the bus
RECURSIVE unsubscribeAll(_, _, _)
unsubscribeAll(evs, subs, i) ==
    IF i > Len(subs) THEN evs
    ELSE unsubscribeAll(off(evs, "role:changed", subs[i].id), subs, i + 1)

\* destroy()
Destroy ==
    \E c \in ComponentNames :
        /\ components[c].mounted
        /\ events' = unsubscribeAll(events, components[c].subscriptions, 1)
        /\ components' = [components EXCEPT ![c].subscriptions = <<>>,
                                            ![c].mounted = FALSE,
                                            ![c].destroyed = TRUE]
        /\ call' = [op |-> "destroy", args |-> <<c>>] /\ ret' = None
        /\ emitted' = <<>> /\ saved' = <<>> /\ postRun' = <<>> /\ invoked' = <<>>
        /\ UNCHANGED <<frontVars, backendVars, formVars, listeners,
                       invalidated, questionVars, notCompVars>>

\* the components whose bound onRoleChanged the log says was called
Reached(log) == { c \in ComponentNames : \E i \in 1..Len(log) : log[i].id = c }

\* roleService.switchRole(roleId) with the event bus delivering role:changed:
\* onRoleChanged(data) sets the component's state (setState renders only
\* while mounted)
SwitchRoleDelivered ==
    \E roleId \in {"observer", "customer_admin", UnknownRole} :
      \E r \in {switchRole(roleId, TRUE)} :
        \E d \in { IF r.ret THEN emit(Context, "role:changed", roleId) ELSE Context } :
          /\ call' = [op |-> "switchRole", args |-> <<roleId>>] /\ ret' = r.ret
          /\ currentRole' = r.currentRole /\ lsRole' = r.lsRole
          /\ storeRole' = r.storeRole /\ sidebar' = r.sidebar
          /\ emitted' = r.emitted /\ saved' = r.saved /\ postRun' = <<>>
          /\ events' = d.events /\ invoked' = d.log
          /\ components' =
                [c \in ComponentNames |->
                    IF c \in Reached(d.log)
                    THEN [components[c] EXCEPT
                            !.state = [currentRole |-> getCurrentRole(roles, roleId),
                                       menuItems |-> IF c = "Sidebar"
                                                     THEN buildMenu(navigationData, roles,
                                                                    roleId, roleId)
                                                     ELSE <<>>]]
                    ELSE components[c]]
          /\ UNCHANGED <<cfgVars, roles, permissions, authVars, storeUser, storeSession,
                         navigationData, assessVars, apiVars, backendVars, formVars,
                         listeners, invalidated, questionVars, notCompVars>>

NextComponent == Mount \/ BeforeMountContinue \/ Destroy \/ SwitchRoleDelivered

SpecComponent == InitBus /\ [][NextComponent]_vars

\* C38: once destroy() of a component has returned, the event bus holds no
\* subscription of that component and no event is delivered to it.
C38_DestroyedGetsNoEvent ==
    \A c \in ComponentNames :
        components[c].destroyed
            => /\ c \notin Reached(invoked)
               /\ Has(events, "role:changed")
                    => \A i \in 1..Len(events["role:changed"]) :
                          events["role:changed"][i].id # c

\* ------------------------------------------------------------------------
\* DataTable: setData, handleSearch, handleSort, goToPage
\* ------------------------------------------------------------------------

\* props.columns: two sortable columns and one that is not
Columns ==
    << [field |-> "name", sortable |-> TRUE], [field |-> "n", sortable |-> TRUE],
       [field |-> "id", sortable |-> FALSE] >>

NumberFields == {"n", "id"}

\* getCellValue(row, field) for a plain field name
getCellValue(row, field) == row[field]

DigitChars == <<"0", "1", "2", "3">>

\* value && value.toString(): <<>> stands for a falsy value (0 or '')
cellText(row, field) ==
    IF field \in NumberFields
    THEN IF getCellValue(row, field) = 0 THEN <<>>
         ELSE << DigitChars[getCellValue(row, field) + 1] >>
    ELSE getCellValue(row, field)

\* String.prototype.toLowerCase over the letters in use
toLowerCase(str) == [i \in 1..Len(str) |-> IF str[i] = "A" THEN "a" ELSE str[i]]

\* the row passes the search filter for the query
matches(row, query) ==
    \E i \in 1..Len(Columns) :
        /\ cellText(row, Columns[i].field) # <<>>
        /\ Includes(toLowerCase(cellText(row, Columns[i].field)), toLowerCase(query))

\* UTF-16 code units of the letters in use
CharCode == [A |-> 65, a |-> 97, b |-> 98]

\* aVal < bVal: numbers by value, strings by code units
lessThan(field, aVal, bVal) ==
    IF field \in NumberFields THEN aVal < bVal
    ELSE \E k \in 1..(Len(bVal)) :
            /\ SubSeq(aVal, 1, k - 1) = SubSeq(bVal, 1, k - 1)
            /\ k - 1 <= Len(aVal)
            /\ (k > Len(aVal) \/ CharCode[aVal[k]] < CharCode[bVal[k]])

\* the comparator applyFilters hands to sort
compare(a, b, sortColumn, sortDirection) ==
    IF lessThan(sortColumn, getCellValue(a, sortColumn), getCellValue(b, sortColumn))
    THEN IF sortDirection = "asc" THEN -1 ELSE 1
    ELSE IF lessThan(sortColumn, getCellValue(b, sortColumn), getCellValue(a, sortColumn))
    THEN IF sortDirection = "asc" THEN 1 ELSE -1
    ELSE 0

\* Array.prototype.sort (stable) of the first n rows of list
RECURSIVE sort(_, _, _, _)
sort(list, n, sortColumn, sortDirection) ==
    IF n = 0 THEN <<>>
    ELSE The({ SubSeq(done, 1, k) \o << list[n] >> \o SubSeq(done, k + 1, Len(done)) :
               done \in {sort(list, n - 1, sortColumn, sortDirection)},
               k \in { Cardinality({ i \in 1..(n - 1) :
                          compare(sort(list, n - 1, sortColumn, sortDirection)[i], list[n],
                                  sortColumn, sortDirection) <= 0 }) } })

\* applyFilters(data) as the state st stands
applyFilters(st, data) ==
    LET MatchesQuery(row) == matches(row, st.searchQuery)
        filtered == IF st.searchQuery # <<>> THEN SelectSeq(data, MatchesQuery) ELSE data
    IN IF st.sortColumn # None
       THEN sort(filtered, Len(filtered), st.sortColumn, st.sortDirection)
       ELSE filtered

\* getTotalPages(): Math.ceil(filteredData.length / pageSize)
getTotalPages(st) == (Len(st.filteredData) + st.pageSize - 1) \div st.pageSize

TableRow(id, name, n) == [id |-> id, name |-> name, n |-> n]

DataSets ==
    { <<>>,
      << TableRow(1, <<"A", "b">>, 2), TableRow(2, <<"b">>, 0), TableRow(3, <<"a">>, 1) >>,
      << TableRow(2, <<"b">>, 0), TableRow(3, <<"a">>, 1) >> }

Queries == { <<>>, <<"a">>, <<"A", "b">>, <<"2">> }

\* page numbers handed to goToPage: 0..MaxPage
MaxPage == 4

SetData ==
    \E data \in DataSets :
        /\ table' = [table EXCEPT !.data = data,
                                  !.filteredData = applyFilters(table, data),
                                  !.currentPage = 1,
                                  !.selectedRows = {}]
        /\ call' = [op |-> "setData", args |-> <<data>>] /\ ret' = None
        /\ emitted' = <<>> /\ saved' = <<>> /\ postRun' = <<>>
        /\ UNCHANGED <<frontVars, backendVars, formVars, pubsubVars, invalidated,
                       questionVars, notTableVars>>

HandleSearch ==
    \E query \in Queries :
        /\ table' = [table EXCEPT !.searchQuery = query,
                                  !.filteredData = applyFilters(table, table.data),
                                  !.currentPage = 1]
        /\ call' = [op |-> "handleSearch", args |-> <<query>>] /\ ret' = None
        /\ emitted' = <<>> /\ saved' = <<>> /\ postRun' = <<>>
        /\ UNCHANGED <<frontVars, backendVars, formVars, pubsubVars, invalidated,
                       questionVars, notTableVars>>

HandleSort ==
    \E i \in 1..Len(Columns) :
        /\ table' =
             IF ~Columns[i].sortable THEN table
             ELSE [table EXCEPT
                     !.sortColumn = Columns[i].field,
                     !.sortDirection = IF table.sortColumn = Columns[i].field
                                          /\ table.sortDirection = "asc"
                                       THEN "desc" ELSE "asc",
                     !.filteredData = applyFilters(table, table.data)]
        /\ call' = [op |-> "handleSort", args |-> <<Columns[i].field>>] /\ ret' = None
        /\ emitted' = <<>> /\ saved' = <<>> /\ postRun' = <<>>
        /\ UNCHANGED <<frontVars, backendVars, formVars, pubsubVars, invalidated,
                       questionVars, notTableVars>>

GoToPage ==
    \E page \in 0..MaxPage :
        /\ table' = IF page < 1 \/ page > getTotalPages(table) THEN table
                    ELSE [table EXCEPT !.currentPage = page]
        /\ call' = [op |-> "goToPage", args |-> <<page>>] /\ ret' = None
        /\ emitted' = <<>> /\ saved' = <<>> /\ postRun' = <<>>
        /\ UNCHANGED <<frontVars, backendVars, formVars, pubsubVars, invalidated,
                       questionVars, notTableVars>>

\* new DataTable({columns, data, pageSize}) on a page that has started nothing else
InitTable ==
    /\ mode = "local" /\ lsRole = None
    /\ CfgConstructed /\ RoleConstructed /\ AuthConstructed /\ StoreConstructed
    /\ NavConstructed /\ AssessConstructed /\ ApiConstructed /\ OpConstructed
    /\ BackendStopped /\ FormUnmounted /\ PubSubConstructed
    /\ QuestionsConstructed /\ invalidated = {} /\ NotTableConstructed
    /\ \E data \in DataSets, pageSize \in {1, 2} : table = NewTable(data, pageSize)

NextTable == SetData \/ HandleSearch \/ HandleSort \/ GoToPage

SpecTable == InitTable /\ [][NextTable]_vars

\* the rows of list are in the order the column and direction ask for
Ordered(list, sortColumn, sortDirection) ==
    \A i, j \in 1..Len(list) :
        i < j => compare(list[i], list[j], sortColumn, sortDirection) <= 0

\* the rows of data that pass the search filter for the query, in data order
Matching(data, query) ==
    LET Passes(row) == query = <<>> \/ matches(row, query) IN SelectSeq(data, Passes)

SameRows(l1, l2) ==
    /\ Len(l1) = Len(l2)
    /\ {l1[i] : i \in 1..Len(l1)} = {l2[i] : i \in 1..Len(l2)}

\* C39: after setData, handleSearch and handleSort (of a sortable column)
\* filteredData is exactly the rows of data that match the current
\* searchQuery, in the order of the current sortColumn and sortDirection, and
\* the current page always lies in 1..max(1, totalPages).
C39_FilteredDataIsCurrent ==
    /\ (\/ call.op \in {"setData", "handleSearch"}
        \/ /\ call.op = "handleSort"
           /\ \E i \in 1..Len(Columns) :
                 Columns[i].field = call.args[1] /\ Columns[i].sortable)
        => /\ SameRows(table.filteredData, Matching(table.data, table.searchQuery))
           /\ IF table.sortColumn = None
              THEN table.filteredData = Matching(table.data, table.searchQuery)
              ELSE Ordered(table.filteredData, table.sortColumn, table.sortDirection)
    /\ table.currentPage >= 1
    /\ table.currentPage <= IF getTotalPages(table) > 1 THEN getTotalPages(table) ELSE 1

\* ------------------------------------------------------------------------
\* FormBuilder: isValid, reset, handleSubmit
\* ------------------------------------------------------------------------

\* isValid(): Object.keys(this.state.errors).length === 0
isValid(errs) == DOMAIN errs = {}

\* reset()
Reset ==
    /\ values' = Null /\ errors' = Null /\ touched' = {} /\ submitting' = FALSE
    /\ call' = [op |-> "reset", args |-> <<>>] /\ ret' = None
    /\ emitted' = <<>> /\ saved' = <<>> /\ postRun' = <<>>
    /\ UNCHANGED <<frontVars, backendVars, pubsubVars, fields, invalidated, questionVars,
                   notSubmitVars, awaiting>>

\* handleSubmit calls followed while they wait for onSubmit
MaxSubmits == 1

\* handleSubmit(event) up to its await: validate(), then either the error
\* notification and return, or submitting = true and props.onSubmit(values)
HandleSubmit ==
    LET failing == {i \in 1..Len(fields) :
                      getFieldError(fields[i], valueOf(values, fields[i].name)) # NoError}
    IN  /\ awaiting < MaxSubmits
        /\ errors' = [n \in {fields[i].name : i \in failing} |->
                        getFieldError(getField(n)[1], valueOf(values, n))]
        /\ touched' = {fields[i].name : i \in 1..Len(fields)}
        /\ call' = [op |-> "handleSubmit", args |-> <<>>]
        /\ ret' = IF failing = {} THEN "onSubmit" ELSE "Please fix the errors in the form"
        /\ submitting' = IF failing = {} THEN TRUE ELSE submitting
        /\ awaiting' = IF failing = {} THEN awaiting + 1 ELSE awaiting
        /\ emitted' = <<>> /\ saved' = <<>> /\ postRun' = <<>>
        /\ UNCHANGED <<frontVars, backendVars, pubsubVars, fields, values, invalidated,
                       questionVars, notSubmitVars>>

\* props.onSubmit settles (resolved or rejected): catch, finally
SubmitSettles ==
    \E resolved \in BOOLEAN :
        /\ awaiting > 0
        /\ awaiting' = awaiting - 1 /\ submitting' = FALSE
        /\ call' = [op |-> "handleSubmit.finally", args |-> <<resolved>>]
        /\ ret' = IF resolved THEN None ELSE "Form submission failed"
        /\ emitted' = <<>> /\ saved' = <<>> /\ postRun' = <<>>
        /\ UNCHANGED <<frontVars, backendVars, pubsubVars, formVars, invalidated,
                       questionVars, notSubmitVars>>

InitSubmit == InitForm /\ fields \in RuleSchemas

NextSubmit == HandleChange \/ Validate \/ Reset \/ HandleSubmit \/ SubmitSettles

SpecSubmit == InitSubmit /\ [][NextSubmit]_vars

\* no field of the form has an error message at present
NoFieldHasError == \A n \in DOMAIN errors : errors[n] = NoError

\* C40: isValid() is true exactly when no field has an error message;
\* handleSubmit calls onSubmit only when validate() found no error, and when
\* it finishes submitting is false.
C40_IsValidIffNoError ==
    /\ isValid(errors) <=> NoFieldHasError
    /\ (call.op = "handleSubmit" /\ ret = "onSubmit")
          => \A i \in 1..Len(fields) :
                getFieldError(fields[i], valueOf(values, fields[i].name)) = NoError
    /\ call.op = "handleSubmit.finally" => ~submitting

====
